---- MODULE Spec2Model ----
(***************************************************************************)
(* A model of news-bias-analysis: the bias route (app/api/bias/route.ts:   *)
(* tokenizer, Naive Bayes trainer and predictor, CSV dataset loader, model *)
(* cache, POST handler) and the summarize route's extractive summarizer.   *)
(*                                                                         *)
(* Texts are TLA+ strings; a character is a string of length 1.  JS        *)
(* numbers that hold counts are integers.  The log-scores of the predictor *)
(* are doubles in the source; the model keeps the real number a score      *)
(* stands for as an exact fraction [num, den] of its antilogarithm, so     *)
(* Math.log / Math.exp are the (monotone) change of representation and     *)
(* comparisons of log-scores are comparisons of the fractions.             *)
(***************************************************************************)
EXTENDS Integers, Sequences, FiniteSets, TLC

(***************************************************************************)
(* Loops.  Loop(Body, init, lo, hi) is the state after                     *)
(*   st = init; for (i = lo; i <= hi; i++) st = Body(st, i)                *)
(* The range is split in halves and the first half is evaluated before the *)
(* second (left = left), which keeps TLC's evaluation stack shallow; the   *)
(* iterations run in order lo, lo + 1, ..., hi.                            *)
(***************************************************************************)
Loop(Body(_, _), init, lo, hi) ==
  LET RECURSIVE Run(_, _, _)
      Run(st, a, b) ==
        IF a > b THEN st
        ELSE IF a = b THEN Body(st, a)
        ELSE LET mid == (a + b) \div 2
                 left == Run(st, a, mid)
             IN IF left = left THEN Run(left, mid + 1, b) ELSE left
  IN Run(init, lo, hi)

\* const x = e; ... : Body(x) for the value x of e, which is evaluated once
Bind(e, Body(_)) == CHOOSE r \in { Body(x) : x \in {e} } : TRUE

(***************************************************************************)
(* Characters and strings                                                  *)
(***************************************************************************)
LowerChars == "abcdefghijklmnopqrstuvwxyz"
UpperChars == "ABCDEFGHIJKLMNOPQRSTUVWXYZ"
DigitChars == "0123456789"

CharAt(s, i) == SubSeq(s, i, i)

CharSet(s) == { CharAt(s, i) : i \in 1..Len(s) }

Letters == CharSet(LowerChars)

Digits == CharSet(DigitChars)

\* the characters JS \s and String.prototype.trim treat as white space
\* (those of them an input of the model can hold)
WhiteSpace == {" ", "\t", "\n", "\r"}

\* String.prototype.toLowerCase on one character
LowerChar(c) ==
  IF \E i \in 1..Len(UpperChars) : CharAt(UpperChars, i) = c
    THEN CharAt(LowerChars, CHOOSE i \in 1..Len(UpperChars) : CharAt(UpperChars, i) = c)
    ELSE c

\* String.prototype.toLowerCase
toLowerCase(s) == Loop(LAMBDA acc, i : acc \o LowerChar(CharAt(s, i)), "", 1, Len(s))

\* String.prototype.trim: from the first to the last character that is no white space
trim(s) ==
  LET solid == { i \in 1..Len(s) : CharAt(s, i) \notin WhiteSpace } IN
    IF solid = {} THEN ""
    ELSE SubSeq(s, CHOOSE i \in solid : \A j \in solid : i <= j,
                   CHOOSE i \in solid : \A j \in solid : i >= j)

\* String.prototype.includes
includes(s, sub) ==
  \E i \in 1..(Len(s) - Len(sub) + 1) : SubSeq(s, i, i + Len(sub) - 1) = sub

\* s.match(/[cls]+/g) || [] : the maximal runs of characters of cls, in order
Flush(st) == IF st.cur = "" THEN st.acc ELSE Append(st.acc, st.cur)

Runs(s, cls) ==
  Flush(Loop(LAMBDA st, i :
               IF CharAt(s, i) \in cls
                 THEN [cur |-> st.cur \o CharAt(s, i), acc |-> st.acc]
                 ELSE [cur |-> "", acc |-> Flush(st)],
             [cur |-> "", acc |-> <<>>], 1, Len(s)))

Range(seq) == { seq[i] : i \in 1..Len(seq) }

\* Array.from(new Set(seq)): the distinct elements in order of first occurrence
Uniq(seq) ==
  Loop(LAMBDA acc, i : IF seq[i] \in Range(acc) THEN acc ELSE Append(acc, seq[i]),
       <<>>, 1, Len(seq))

\* Map.prototype.get(t) || 0 on a map kept as a function with a finite domain
Get(m, t) == IF t \in DOMAIN m THEN m[t] ELSE 0

\* Map.prototype.set
Put(m, t, v) == [x \in (DOMAIN m) \cup {t} |-> IF x = t THEN v ELSE m[x]]

EmptyMap == [x \in {} |-> 0]

(***************************************************************************)
(* Labels and the tokenizer of the classifier                              *)
(***************************************************************************)
Labels == <<"neutral", "slightly-biased", "highly-biased">>

Label == Range(Labels)

NoLabel == "null"

normalizeLabel(raw) ==
  LET r == toLowerCase(trim(raw)) IN
    IF includes(r, "neutral") THEN "neutral"
    ELSE IF includes(r, "slight") THEN "slightly-biased"
    ELSE IF includes(r, "high") \/ includes(r, "extreme") \/ includes(r, "strong")
      THEN "highly-biased"
    ELSE NoLabel

stop ==
  {"the", "and", "for", "that", "with", "this", "from", "have", "has", "had",
   "are", "was", "were", "but", "not", "you", "your", "our", "their", "they",
   "his", "her", "its", "who", "what", "when", "where", "why", "how", "can",
   "will", "would", "could", "should", "said", "says", "say", "into", "over",
   "under", "than", "then", "also", "more", "most", "some", "any", "all",
   "because", "been", "after", "before", "about", "against", "between",
   "during", "without", "within", "while", "into", "onto", "off", "per", "via",
   "as", "by", "at", "on", "in", "to", "of", "a", "an", "it"}

\* the shortest token the tokenizers keep (t.length >= 3)
MinTokenLen == 3

tokenize(text) ==
  LET tokens == Runs(toLowerCase(text), Letters)
      Keep(t) == Len(t) >= MinTokenLen /\ t \notin stop
  IN SelectSeq(tokens, Keep)

(***************************************************************************)
(* The Naive Bayes trainer                                                 *)
(***************************************************************************)
\* the inner loop of trainNaiveBayes: for (const t of toks) { ... }
AddTokens(m, label, toks) ==
  Loop(LAMBDA acc, j :
         [acc EXCEPT !.vocab = @ \cup {toks[j]},
                     !.tokenCounts[label] = Put(@, toks[j], Get(@, toks[j]) + 1),
                     !.totalTokens[label] = @ + 1],
       m, 1, Len(toks))

\* mutant: a trainer that counts every occurrence
RowTokensAll(text) == tokenize(text)

\* the tokens of a row the trainer counts: binary NB, presence not frequency
RowTokens(text) == Uniq(tokenize(text))

\* the body of the loop over rows: one row folded into the accumulators
TrainRow(m, row) ==
  AddTokens([m EXCEPT !.docCount[row.label] = @ + 1], row.label, RowTokens(row.text))

trainNaiveBayes(rows) ==
  Loop(LAMBDA m, i : TrainRow(m, rows[i]),
       [labels |-> Labels,
        vocab |-> {},
        docCount |-> [l \in Label |-> 0],
        tokenCounts |-> [l \in Label |-> EmptyMap],
        totalTokens |-> [l \in Label |-> 0],
        trainedOn |-> Len(rows)],
       1, Len(rows))

(***************************************************************************)
(* Exact fractions: the real numbers the predictor's doubles stand for     *)
(***************************************************************************)
RECURSIVE GCD(_, _)
GCD(a, b) == IF b = 0 THEN a ELSE GCD(b, a % b)

Frac(n, d) == LET g == GCD(n, d) IN [num |-> n \div g, den |-> d \div g]

RMul(a, b) == Frac(a.num * b.num, a.den * b.den)

RDiv(a, b) == Frac(a.num * b.den, a.den * b.num)

RAdd(a, b) ==
  LET g == GCD(a.den, b.den) IN
    Frac(a.num * (b.den \div g) + b.num * (a.den \div g), a.den * (b.den \div g))

\* a > b
RGreater(a, b) ==
  LET g == GCD(a.den, b.den) IN a.num * (b.den \div g) > b.num * (a.den \div g)

RZero == [num |-> 0, den |-> 1]

ROne == [num |-> 1, den |-> 1]

(***************************************************************************)
(* The predictor.  A log-score ll is kept as the fraction exp(ll);         *)
(* ll += Math.log(p) multiplies it by p, Number.NEGATIVE_INFINITY is 0.    *)
(***************************************************************************)
RECURSIVE SumOver(_, _, _)
SumOver(f, seq, i) == IF i > Len(seq) THEN 0 ELSE f[seq[i]] + SumOver(f, seq, i + 1)

Max(a, b) == IF a >= b THEN a ELSE b

Min(a, b) == IF a <= b THEN a ELSE b

\* the likelihood of one token: (count + 1) / (totalTokens[l] + V)
TokenProb(model, l, V, t) ==
  Frac(Get(model.tokenCounts[l], t) + 1, model.totalTokens[l] + V)

\* the Laplace-smoothed prior: (docCount[l] + 1) / (N + labels.length)
Prior(model, l, N) == Frac(model.docCount[l] + 1, N + Len(model.labels))

\* logScores[l] of predict: ll = prior; for (const t of toks) ll += Math.log(prob)
LogScore(model, l, toks) ==
  LET N == SumOver(model.docCount, model.labels, 1)
      V == Max(1, Cardinality(model.vocab))
  IN Loop(LAMBDA ll, j : RMul(ll, TokenProb(model, l, V, toks[j])),
          Prior(model, l, N), 1, Len(toks))

\* Math.max(...vals)
RECURSIVE MaxOf(_, _, _)
MaxOf(vals, i, m) ==
  IF i > Len(vals) THEN m
  ELSE MaxOf(vals, i + 1, IF RGreater(vals[i], m) THEN vals[i] ELSE m)

RECURSIVE RSum(_, _)
RSum(vals, i) == IF i > Len(vals) THEN RZero ELSE RAdd(vals[i], RSum(vals, i + 1))

\* mutant: a softmax that leaves out the division by the sum
softmaxNoSum(scores) ==
  LET vals == [i \in 1..Len(Labels) |-> scores[Labels[i]]]
      max == MaxOf(vals, 2, vals[1])
  IN [l \in Label |-> RDiv(scores[l], max)]

\* scores: label -> log-score; exps[k] = Math.exp(v - max), probs[k] = v / (sum || 1)
softmaxLogScores(scores) ==
  LET vals == [i \in 1..Len(Labels) |-> scores[Labels[i]]]
      max == MaxOf(vals, 2, vals[1])
      exps == [l \in Label |-> RDiv(scores[l], max)]
      sum == RSum([i \in 1..Len(Labels) |-> exps[Labels[i]]], 1)
  IN [l \in Label |-> RDiv(exps[l], IF sum.num = 0 THEN ROne ELSE sum)]

\* mutant: a loop that takes a later label on a tie
RECURSIVE BestFromLast(_, _, _, _, _)
BestFromLast(labels, logScores, i, best, bestVal) ==
  IF i > Len(labels) THEN best
  ELSE IF ~RGreater(bestVal, logScores[labels[i]])
    THEN BestFromLast(labels, logScores, i + 1, labels[i], logScores[labels[i]])
    ELSE BestFromLast(labels, logScores, i + 1, best, bestVal)

\* the loop that picks best: if (logScores[l] > bestVal) { bestVal = ...; best = l }
RECURSIVE BestFrom(_, _, _, _, _)
BestFrom(labels, logScores, i, best, bestVal) ==
  IF i > Len(labels) THEN best
  ELSE IF RGreater(logScores[labels[i]], bestVal)
    THEN BestFrom(labels, logScores, i + 1, labels[i], logScores[labels[i]])
    ELSE BestFrom(labels, logScores, i + 1, best, bestVal)

predict(model, text) ==
  LET toks == Uniq(tokenize(text))
      logScores == [l \in Label |-> LogScore(model, l, toks)]
  IN [label |-> BestFrom(model.labels, logScores, 1, model.labels[1], RZero),
      probs |-> softmaxLogScores(logScores)]

\* Array.prototype.sort((a, b) => b.score - a.score): stable, descending
RECURSIVE InsertDesc(_, _)
InsertDesc(sorted, e) ==
  IF sorted = <<>> THEN <<e>>
  ELSE IF RGreater(e.score, sorted[Len(sorted)].score)
    THEN Append(InsertDesc(SubSeq(sorted, 1, Len(sorted) - 1), e), sorted[Len(sorted)])
    ELSE Append(sorted, e)

RECURSIVE SortDescFrom(_, _, _)
SortDescFrom(arr, i, acc) ==
  IF i > Len(arr) THEN acc ELSE SortDescFrom(arr, i + 1, InsertDesc(acc, arr[i]))

SortDesc(arr) == SortDescFrom(arr, 1, <<>>)

\* the 200 body of POST /bias for a model and a text (route.ts 373-381)
BiasResponse(model, text) ==
  LET p == predict(model, text)
      entries == [i \in 1..Len(model.labels) |->
                    [label |-> model.labels[i], score |-> p.probs[model.labels[i]]]]
  IN [status |-> 200,
      label |-> p.label,
      probabilities |-> SortDesc(entries),
      trainedOn |-> model.trainedOn]

(***************************************************************************)
(* CSV parsing and the dataset loader                                      *)
(***************************************************************************)
\* the while loop of parseCSV from position i (1-based) in state
\* (field, row, rows, inQuotes); text[i + 1] past the end is undefined
\* one character of parseCSV's loop.  skip is set when the loop has consumed
\* the next character too (i += 2 on a doubled quote).
\* one character of a loop that does not look at text[i + 1]: a quote inside a
\* quoted field always ends it
ParseCharNoEscape(st, text, i) ==
  LET c == CharAt(text, i) IN
    IF st.inQuotes
      THEN IF c = "\"" THEN [st EXCEPT !.inQuotes = FALSE]
           ELSE [st EXCEPT !.field = @ \o c]
      ELSE IF c = "\"" THEN [st EXCEPT !.inQuotes = TRUE]
      ELSE IF c = "," THEN [st EXCEPT !.row = Append(@, st.field), !.field = ""]
      ELSE IF c = "\n"
        THEN [st EXCEPT !.rows = Append(@, Append(st.row, st.field)),
                        !.row = <<>>, !.field = ""]
      ELSE IF c = "\r" THEN st
      ELSE [st EXCEPT !.field = @ \o c]

ParseChar(st, text, i) ==
  LET c == CharAt(text, i) IN
    IF st.skip THEN [st EXCEPT !.skip = FALSE]
    ELSE IF st.inQuotes
      THEN IF c = "\""
        THEN IF i + 1 <= Len(text) /\ CharAt(text, i + 1) = "\""
          THEN [st EXCEPT !.field = @ \o "\"", !.skip = TRUE]
          ELSE [st EXCEPT !.inQuotes = FALSE]
        ELSE [st EXCEPT !.field = @ \o c]
      ELSE IF c = "\"" THEN [st EXCEPT !.inQuotes = TRUE]
      ELSE IF c = "," THEN [st EXCEPT !.row = Append(@, st.field), !.field = ""]
      ELSE IF c = "\n"
        THEN [st EXCEPT !.rows = Append(@, Append(st.row, st.field)),
                        !.row = <<>>, !.field = ""]
      ELSE IF c = "\r" THEN st
      ELSE [st EXCEPT !.field = @ \o c]

parseCSV(text) ==
  LET end == Loop(LAMBDA st, i : ParseChar(st, text, i),
                  [field |-> "", row |-> <<>>, rows |-> <<>>,
                   inQuotes |-> FALSE, skip |-> FALSE],
                  1, Len(text))
      rows == Append(end.rows, Append(end.row, end.field))
      last == rows[Len(rows)]
  IN IF Len(last) = 1 /\ last[1] = "" THEN SubSeq(rows, 1, Len(rows) - 1) ELSE rows

\* Array.prototype.findIndex(h => names.includes(h)), 1-based; 0 stands for -1
findIndex(header, names) ==
  IF \E i \in 1..Len(header) : header[i] \in names
    THEN CHOOSE i \in 1..Len(header) :
           header[i] \in names /\ \A j \in 1..(i - 1) : header[j] \notin names
    ELSE 0

TextHeaders == {"text", "article", "content", "body"}

LabelHeaders == {"label", "bias", "leaning", "dimension"}

\* r[idx] || "" : a row shorter than the header has undefined there
Cell(r, idx) == IF idx <= Len(r) THEN r[idx] ELSE ""

\* the row loop of fetchRawCsvRows: for (i = 1; i < rows.length && out.length < limit; i++)
\* (rows[1] is the header here, so data rows are rows[2..])
\* a loop body that files a row with an unrecognized label under "neutral"
AcceptRowDefault(out, r, textIdx, labelIdx, limit) ==
  LET text == Cell(r, textIdx)
      raw == toLowerCase(Cell(r, labelIdx))
      norm == normalizeLabel(raw)
  IN IF Len(out) >= limit THEN out
     ELSE IF text = "" THEN out
     ELSE Append(out, [text |-> text, label |-> IF norm = NoLabel THEN "neutral" ELSE norm])

AcceptRow(out, r, textIdx, labelIdx, limit) ==
  LET text == Cell(r, textIdx)
      raw == toLowerCase(Cell(r, labelIdx))
      norm == normalizeLabel(raw)
  IN IF Len(out) >= limit THEN out
     ELSE IF text = "" \/ norm = NoLabel \/ norm \notin Label THEN out
     ELSE Append(out, [text |-> text, label |-> norm])

AcceptedRows(rows, textIdx, labelIdx, limit) ==
  Loop(LAMBDA out, i : AcceptRow(out, rows[i], textIdx, labelIdx, limit),
       <<>>, 2, Len(rows))

Branch(kind, out, thrown) == [kind |-> kind, out |-> out, thrown |-> thrown]

\* the try block of fetchRawCsvRows for one candidate and the response it gets:
\* resp.kind is "throw" (fetch or r.text() rejects), "status" (!r.ok) or "ok" with
\* resp.csv.  kind names the branch taken, out holds the accepted rows, thrown
\* tells that the block ended with an exception.
\* the rest of the try block once the columns are known
WithColumns(rows, textIdx, labelIdx, limit) ==
  IF textIdx = 0 \/ labelIdx = 0 THEN Branch("noColumn", <<>>, FALSE)
  ELSE Bind(AcceptedRows(rows, textIdx, labelIdx, limit),
            LAMBDA out : IF Len(out) > 0 THEN Branch("rows", out, FALSE)
                         ELSE Branch("zeroRows", <<>>, FALSE))

\* the rest of the try block once the text is parsed
WithRows(rows, limit) ==
  IF Len(rows) = 0 THEN Branch("emptyParse", <<>>, FALSE)
  ELSE Bind([i \in 1..Len(rows[1]) |-> toLowerCase(trim(rows[1][i]))],
            LAMBDA header :
              Bind(<<findIndex(header, TextHeaders), findIndex(header, LabelHeaders)>>,
                   LAMBDA idx : WithColumns(rows, idx[1], idx[2], limit)))

TryCandidate(resp, limit) ==
  IF resp.kind = "throw" THEN Branch("exception", <<>>, TRUE)
  ELSE IF resp.kind = "status" THEN Branch("notOk", <<>>, FALSE)
  ELSE Bind(parseCSV(resp.csv), LAMBDA rows : WithRows(rows, limit))

\* mutant: the loop body without its catch block
CandidateNoCatch(resp, limit) == TryCandidate(resp, limit)

\* try { ... } catch (e) { console.log(...) }: the exception ends in the catch block
Candidate(resp, limit) ==
  Bind(TryCandidate(resp, limit),
       LAMBDA t : IF t.thrown THEN Branch(t.kind, <<>>, FALSE) ELSE t)

\* the number of candidate URLs (urls.length)
NumUrls == 4

\* buildModel calls fetchRawCsvRows(2000)
Limit == 2000

(***************************************************************************)
(* The fallback seed                                                       *)
(***************************************************************************)
SeedNeutral ==
  <<"The report outlines the timeline of events and quotes multiple sources without editorializing.",
    "Officials provided details about the incident; no conclusions were drawn pending investigation.",
    "Data from the study is presented with methodology and limitations clearly described.",
    "The article summarizes statements from both parties without implying motives.",
    "Key facts were verified against public records and official documents.",
    "The briefing covered the policy proposal with quotes from proponents and opponents.",
    "Market results are reported with historical context and analyst perspectives.",
    "International reactions are listed with minimal interpretation.",
    "The court filing is summarized with references to the original documents.",
    "The piece outlines procedural steps taken by the committee this week.">>

SeedSlight ==
  <<"Experts say the plan could raise concerns, though supporters downplay the risk.",
    "Critics argue the measure may go too far, while backers call it a necessary step.",
    "The article frames the issue as contentious, highlighting possible drawbacks.",
    "Some observers contend the language in the bill is vague and open to abuse.",
    "Opponents questioned the timing, suggesting political motives could be at play.",
    "Supporters maintain the change is overdue despite logistical challenges.",
    "Analysts warn there might be unintended consequences in certain regions.",
    "Commentators note the messaging strategy favors one side's narrative.",
    "Some reports emphasize the dispute more than the underlying data.",
    "Coverage points out inconsistencies without fully exploring alternative views.">>

SeedHigh ==
  <<"The piece denounces opponents in strong terms, suggesting malicious intent.",
    "Language repeatedly labels one side as dishonest without presenting evidence.",
    "The article uses charged descriptions to portray the policy as catastrophic.",
    "Opposing views are dismissed as propaganda rather than addressed on merits.",
    "Hyperbolic claims are made with little sourcing, implying a foregone conclusion.",
    "The narrative implies conspiratorial motives throughout the coverage.",
    "Selective quoting and loaded adjectives frame the debate as a moral battle.",
    "The report ridicules certain groups while ignoring counter-evidence.",
    "It amplifies unverified allegations and treats speculation as fact.",
    "One-sided framing presents dissenting experts as bad-faith actors.">>

\* for (const t of texts) rows.push({ text: t, label })
Labelled(texts, label) == [i \in 1..Len(texts) |-> [text |-> texts[i], label |-> label]]

balancedSeed ==
  LET rows == Labelled(SeedNeutral, "neutral") \o Labelled(SeedSlight, "slightly-biased")
                \o Labelled(SeedHigh, "highly-biased")
  IN rows \o rows

\* mutant: buildModel without the fallback
TrainingRowsNoSeed(rows) == rows

\* buildModel after the loader has returned rows: the seed when there are none
TrainingRows(rows) == IF Len(rows) = 0 THEN balancedSeed ELSE rows

SeedModel == trainNaiveBayes(balancedSeed)

\* buildModel once the loader has returned rows: train on them, or on the seed.
\* SeedModel is trainNaiveBayes(balancedSeed), evaluated once.
buildModel(rows) ==
  LET training == TrainingRows(rows) IN
    IF training = balancedSeed THEN SeedModel ELSE trainNaiveBayes(training)

(***************************************************************************)
(* The extractive summarizer of the summarize route (unnamed/part_000).    *)
(* Texts are ASCII; the one character U+2026 that truncate appends is      *)
(* written "~", which no other text of the model holds.                    *)
(***************************************************************************)
Ellipsis == "~"

\* s.replace(/\s+/g, " ")
CollapseSpace(s) ==
  Loop(LAMBDA st, i :
         IF CharAt(s, i) \in WhiteSpace
           THEN [out |-> IF st.ws THEN st.out ELSE st.out \o " ", ws |-> TRUE]
           ELSE [out |-> st.out \o CharAt(s, i), ws |-> FALSE],
       [out |-> "", ws |-> FALSE], 1, Len(s)).out

\* text.replace(/\s+/g, " ").trim()
normalize(text) == Bind(CollapseSpace(text), LAMBDA s : trim(s))

\* canonical of extractiveSummary: s.replace(/\s+/g, " ").trim().toLowerCase()
canonical(s) == toLowerCase(normalize(s))

SentenceEnds == {".", "!", "?", ";", ":"}

\* s.split(/(?<=[.!?])\s+|(?<=;)\s+|(?<=:)\s+/): the pieces between the runs of
\* white space that follow one of . ! ? ; :
SplitStep(st, s, i) ==
  LET c == CharAt(s, i) IN
    IF c \in WhiteSpace /\ st.sep THEN st
    ELSE IF c \in WhiteSpace /\ i > 1 /\ CharAt(s, i - 1) \in SentenceEnds
      THEN [cur |-> "", acc |-> Append(st.acc, st.cur), sep |-> TRUE]
    ELSE [cur |-> st.cur \o c, acc |-> st.acc, sep |-> FALSE]

split(s) ==
  Bind(Loop(LAMBDA st, i : SplitStep(st, s, i),
            [cur |-> "", acc |-> <<>>, sep |-> FALSE], 1, Len(s)),
       LAMBDA end : Append(end.acc, end.cur))

NonEmpty(x) == x # ""

\* sentences: the non-empty pieces, or the whole text when there is none
Sentences(normalized) ==
  Bind(SelectSeq(split(normalized), NonEmpty),
       LAMBDA sentenceSplit : IF Len(sentenceSplit) > 0 THEN sentenceSplit
                              ELSE <<normalized>>)

summaryStop ==
  {"the", "is", "in", "and", "to", "of", "a", "for", "on", "that", "with", "as",
   "by", "at", "from", "be", "this", "it", "an", "are", "was", "were", "or",
   "but", "not", "has", "have", "had", "their", "they", "his", "her", "its",
   "you", "your", "our", "them", "who", "what", "when", "where", "why", "how"}

\* the tokenize of extractiveSummary: /[a-z0-9]+/g, length >= 3, no stop word
summaryTokenize(s) ==
  LET Keep(t) == Len(t) >= MinTokenLen /\ t \notin summaryStop
  IN SelectSeq(Runs(toLowerCase(s), Letters \cup Digits), Keep)

\* Array.prototype.slice(0, n) for n >= 0
Take(seq, n) == SubSeq(seq, 1, Min(n, Len(seq)))

\* Array.prototype.join
join(seq, sep) ==
  Loop(LAMBDA acc, i : IF i = 1 THEN seq[i] ELSE acc \o sep \o seq[i], "", 1, Len(seq))

\* the number of times t occurs in seq
Count(seq, t) == Cardinality({ j \in 1..Len(seq) : seq[j] = t })

\* a stable sort of entries by descending n: e goes behind the entries that
\* are not smaller
InsertByCount(sorted, e) ==
  LET p == Cardinality({ j \in 1..Len(sorted) : sorted[j].n >= e.n })
  IN SubSeq(sorted, 1, p) \o <<e>> \o SubSeq(sorted, p + 1, Len(sorted))

SortByCount(entries) ==
  Loop(LAMBDA acc, i : InsertByCount(acc, entries[i]), <<>>, 1, Len(entries))

\* topKeywords: term frequencies in order of first occurrence, sorted by
\* descending frequency, the first n keys
topKeywords(s, n) ==
  Bind(summaryTokenize(s),
       LAMBDA toks :
         Bind(Uniq(toks),
              LAMBDA keys :
                Bind(SortByCount([i \in 1..Len(keys) |->
                                    [k |-> keys[i], n |-> Count(toks, keys[i])]]),
                     LAMBDA tf : [i \in 1..Min(n, Len(tf)) |-> tf[i].k])))

(***************************************************************************)
(* The two regular expressions of extractNumbersDates.  A match is found   *)
(* as the regex engine finds it: at the leftmost position, the first       *)
(* alternative and the longest repetition that let the rest match.         *)
(***************************************************************************)
\* \w
WordChars == Letters \cup CharSet(UpperChars) \cup Digits \cup {"_"}

IsWord(s, i) == i >= 1 /\ i <= Len(s) /\ CharAt(s, i) \in WordChars

\* \b between positions i - 1 and i
Boundary(s, i) == IsWord(s, i - 1) # IsWord(s, i)

\* the length of the run of digits that starts at i
DigitsFrom(s, i) ==
  LET stops == { j \in i..(Len(s) + 1) : j > Len(s) \/ CharAt(s, j) \notin Digits }
  IN (CHOOSE j \in stops : \A k \in stops : j <= k) - i

\* (?:,\d{3})+ at p: the greatest number of groups
GroupsFrom(s, p) ==
  LET IsGroup(q) == q <= Len(s) /\ CharAt(s, q) = "," /\ DigitsFrom(s, q + 1) >= 3
      fits == { g \in 0..Len(s) : \A k \in 0..(g - 1) : IsGroup(p + 4 * k) }
  IN CHOOSE g \in fits : \A h \in fits : g >= h

\* concat of a sequence of sequences
Flatten(seqs) == Loop(LAMBDA acc, i : acc \o seqs[i], <<>>, 1, Len(seqs))

\* n, n - 1, ..., 1
Down(n) == [k \in 1..n |-> n - k + 1]

\* the ends of (?:\d{1,3}(?:,\d{3})+|\d+) at i, in the order the engine tries them
IntEnds(s, i) ==
  LET r == DigitsFrom(s, i)
      Grouped(d) == [k \in 1..GroupsFrom(s, i + d) |->
                       i + d + 4 * (GroupsFrom(s, i + d) - k + 1)]
  IN Flatten([k \in 1..Min(3, r) |-> Grouped(Down(Min(3, r))[k])])
       \o [k \in 1..r |-> i + Down(r)[k]]

\* the ends of %? at q
PctEnds(s, q) == IF q <= Len(s) /\ CharAt(s, q) = "%" THEN <<q + 1, q>> ELSE <<q>>

\* the ends of (?:\.\d+)?%? at p
TailEnds(s, p) ==
  LET f == IF p <= Len(s) /\ CharAt(s, p) = "." THEN DigitsFrom(s, p + 1) ELSE 0
  IN Flatten([k \in 1..f |-> PctEnds(s, p + 1 + Down(f)[k])]) \o PctEnds(s, p)

\* the first element of seq that satisfies Ok, or 0
FirstThat(seq, Ok(_)) ==
  LET hits == { k \in 1..Len(seq) : Ok(seq[k]) }
  IN IF hits = {} THEN 0 ELSE seq[CHOOSE k \in hits : \A h \in hits : k <= h]

\* /\b(?:\d{1,3}(?:,\d{3})+|\d+)(?:\.\d+)?%?\b/ at i: the position after the
\* match, or 0
NumEnd(s, i) ==
  IF ~Boundary(s, i) \/ DigitsFrom(s, i) = 0 THEN 0
  ELSE Bind(IntEnds(s, i),
            LAMBDA ints :
              FirstThat(Flatten([k \in 1..Len(ints) |-> TailEnds(s, ints[k])]),
                        LAMBDA q : Boundary(s, q)))

\* the alternatives of the date expression that start with a letter, in lower
\* case and, for one month, in the order the engine tries them
DateWords ==
  <<"january", "jan", "february", "feb", "march", "mar", "april", "apr", "may",
    "june", "jun", "july", "jul", "august", "aug", "sept.", "september", "sep",
    "october", "oct", "november", "nov", "december", "dec">>

\* /\b(?:\d{4}|Jan(?:uary)?|...|Dec(?:ember)?)\b/i at i: the position after the
\* match, or 0
DateEnd(s, i) ==
  IF ~Boundary(s, i) THEN 0
  ELSE IF DigitsFrom(s, i) >= 4 THEN (IF Boundary(s, i + 4) THEN i + 4 ELSE 0)
  ELSE LET Fits(w) == /\ i + Len(w) - 1 <= Len(s)
                      /\ toLowerCase(SubSeq(s, i, i + Len(w) - 1)) = w
                      /\ Boundary(s, i + Len(w))
           hits == { k \in 1..Len(DateWords) : Fits(DateWords[k]) }
       IN IF hits = {} THEN 0
          ELSE i + Len(DateWords[CHOOSE k \in hits : \A h \in hits : k <= h])

\* s.match(/.../g) || [] for an expression given by End: the matches from left
\* to right, each search starting where the match before it ended
MatchStep(st, s, i, End(_, _)) ==
  IF i < st.next THEN st
  ELSE Bind(End(s, i),
            LAMBDA q : IF q = 0 THEN st
                       ELSE [acc |-> Append(st.acc, SubSeq(s, i, q - 1)), next |-> q])

matchAll(s, End(_, _)) ==
  Loop(LAMBDA st, i : MatchStep(st, s, i, End), [acc |-> <<>>, next |-> 1], 1, Len(s)).acc

\* Array.from(new Set([...nums, ...dates]))
extractNumbersDates(s) == Uniq(matchAll(s, NumEnd) \o matchAll(s, DateEnd))

(***************************************************************************)
(* extractiveSummary and truncate                                          *)
(***************************************************************************)
\* String.prototype.toUpperCase on one character
UpperChar(c) ==
  IF \E i \in 1..Len(LowerChars) : CharAt(LowerChars, i) = c
    THEN CharAt(UpperChars, CHOOSE i \in 1..Len(LowerChars) : CharAt(LowerChars, i) = c)
    ELSE c

\* lastBreak is 0-based as in the source, -1 when cut holds none of . , and space
truncate(s, max) ==
  IF Len(s) <= max THEN s
  ELSE Bind(SubSeq(s, 1, max),
            LAMBDA cut :
              LET breaks == { j \in 1..Len(cut) : CharAt(cut, j) \in {".", ",", " "} }
                  lastBreak == IF breaks = {} THEN -1
                               ELSE (CHOOSE j \in breaks : \A k \in breaks : j >= k) - 1
              IN trim(IF lastBreak > 40 THEN SubSeq(cut, 1, lastBreak) ELSE cut)
                   \o Ellipsis)

\* tokens.join(" ").replace(/^\w/, (c) => c.toUpperCase())
Capitalize(s) ==
  IF IsWord(s, 1) THEN UpperChar(CharAt(s, 1)) \o SubSeq(s, 2, Len(s)) ELSE s

titleFromText(s, sentences) ==
  Bind(IF sentences[1] # "" THEN sentences[1] ELSE s,
       LAMBDA base :
         Bind(Take(summaryTokenize(base), 12),
              LAMBDA tokens : IF Len(tokens) = 0 THEN truncate(base, 80)
                              ELSE Capitalize(join(tokens, " "))))

\* isShort
isShort(normalized, sentences) == Len(normalized) < 280 \/ Len(sentences) <= 2

\* the bullets of the short path before the padding: [...].filter(Boolean)
ShortBullets(normalized, topic, keywords, facts) ==
  SelectSeq(<<"- Topic: " \o truncate(topic, 90),
              IF Len(keywords) > 0 THEN "- Key terms: " \o join(Take(keywords, 5), ", ")
              ELSE "",
              IF Len(facts) > 0 THEN "- Facts: " \o join(facts, ", ") ELSE "",
              "- Summary: " \o truncate(normalized, 160)>>,
            NonEmpty)

\* the short path without its padding loop
PaddedNever(bullets, maxPoints) == bullets

\* while (bullets.length < Math.min(3, maxPoints)) bullets.push(...)
Padded(bullets, maxPoints) ==
  bullets \o [i \in 1..(Min(3, maxPoints) - Len(bullets)) |-> "- Context: brief update"]

\* the short path (133-152)
ShortSummary(normalized, sentences, maxPoints) ==
  Bind(ShortBullets(normalized,
                    titleFromText(normalized, sentences),
                    topKeywords(normalized, 6),
                    Take(extractNumbersDates(normalized), 6)),
       LAMBDA bullets : join(Take(Padded(bullets, maxPoints), maxPoints), "\n"))

\* .sort((a, b) => a - b) on distinct numbers
SortAsc(S) ==
  [i \in 1..Cardinality(S) |-> CHOOSE x \in S : Cardinality({ y \in S : y < x }) = i - 1]

\* targetCount
TargetCount(sentences, maxPoints) ==
  Min(maxPoints, Max(3, (Len(sentences) + 3) \div 4))

\* chosenIdxs without the final .sort((a, b) => a - b): the indices in score order
ChosenIdxsByScore(sentences, maxPoints) ==
  Bind([i \in 1..Len(sentences) |-> summaryTokenize(sentences[i])],
       LAMBDA toks :
         Bind(Flatten(toks),
              LAMBDA all :
                Bind(SortByCount([i \in 1..Len(sentences) |->
                       [k |-> i,
                        n |-> Loop(LAMBDA score, j : score + Count(all, toks[i][j]),
                                   0, 1, Len(toks[i]))]]),
                     LAMBDA scored :
                       [j \in 1..Min(TargetCount(sentences, maxPoints), Len(scored)) |->
                          scored[j].k])))

\* chosenIdxs: the sentences scored by the summed frequency of their tokens,
\* sorted by descending score, the first targetCount of them in text order.
\* An entry [k, n] is { idx, score }; indices are 1-based.
ChosenIdxs(sentences, maxPoints) ==
  Bind([i \in 1..Len(sentences) |-> summaryTokenize(sentences[i])],
       LAMBDA toks :
         Bind(Flatten(toks),
              LAMBDA all :
                Bind(SortByCount([i \in 1..Len(sentences) |->
                       [k |-> i,
                        n |-> Loop(LAMBDA score, j : score + Count(all, toks[i][j]),
                                   0, 1, Len(toks[i]))]]),
                     LAMBDA scored :
                       SortAsc({ scored[j].k :
                                 j \in 1..Min(TargetCount(sentences, maxPoints),
                                              Len(scored)) }))))

\* the defensive check at the end of the standard path
NoEcho(result, normalized) ==
  IF canonical(result) = canonical(normalized)
    THEN join(<<"- Summary:", "- " \o truncate(normalized, 200)>>, "\n")
    ELSE result

\* the standard path (154-179)
StandardSummary(normalized, sentences, maxPoints) ==
  Bind(ChosenIdxs(sentences, maxPoints),
       LAMBDA chosenIdxs :
         Bind(join([j \in 1..Len(chosenIdxs) |->
                      "- " \o truncate(sentences[chosenIdxs[j]], 180)], "\n"),
              LAMBDA result : NoEcho(result, normalized)))

extractiveSummary(text, maxPoints) ==
  Bind(normalize(text),
       LAMBDA normalized :
         IF normalized = "" THEN "- No content provided."
         ELSE Bind(Sentences(normalized),
                   LAMBDA sentences :
                     IF isShort(normalized, sentences)
                       THEN ShortSummary(normalized, sentences, maxPoints)
                       ELSE StandardSummary(normalized, sentences, maxPoints)))

(***************************************************************************)
(* The bias route as a state machine: the module-level cache, the builds   *)
(* (one per call of buildModel) and the POST requests.                     *)
(***************************************************************************)
\* POST /bias requests the model follows
NumReq == 2

Req == 1..NumReq

\* request texts: blank, without a token, with one token
ReqTexts == {"  ", "It is", "So strong"}

\* request bodies: req.json() rejects, or yields null, an object without text,
\* or an object with a text
Bodies ==
  {[kind |-> "unparseable"], [kind |-> "null"], [kind |-> "noText"]}
    \cup {[kind |-> "text", text |-> t] : t \in ReqTexts}

\* (body?.text as string) || "" after req.json().catch(() => ({}))
BodyText(body) == IF body.kind = "text" THEN body.text ELSE ""

\* !text || !text.trim()
Blank(text) == text = "" \/ trim(text) = ""

\* CSV documents a candidate URL can answer with
Csvs ==
  {"",
   "id,note\n1,x\n",
   "text,label\n,neutral\nA cat,left-leaning\n",
   "Text,Bias\r\nStrong claims,Highly Biased\r\n\"Plain, dull facts\",neutral\r\n",
   "label,body\nslightly,Some say so\n"}

\* what a fetch of a candidate URL can come to
Responses ==
  {[kind |-> "throw"], [kind |-> "status"]} \cup {[kind |-> "ok", csv |-> c] : c \in Csvs}

\* POST /summarize requests the model follows
NumSum == 2

SumReq == 1..NumSum

\* process.env: GEMINI_API_KEY and GOOGLE_GENERATIVE_AI_API_KEY, each unset or
\* empty ("") or holding a key
Envs ==
  { [GEMINI_API_KEY |-> g, GOOGLE_GENERATIVE_AI_API_KEY |-> o] :
      g \in {"", "key-a"}, o \in {"", "key-b"} }

NoEnv == [GEMINI_API_KEY |-> "", GOOGLE_GENERATIVE_AI_API_KEY |-> ""]

VARIABLES
  cachedModel,      \* 0 (null) or the build whose model object is cached
  buildingPromise,  \* 0 (null) or the build whose promise chain is in flight
  builds,           \* the calls of buildModel so far, in order
  req,              \* the requests
  call,             \* the arguments of the function a function-level specification applies
  result,           \* what that function has returned so far
  env,              \* process.env: the two variables the summarize route reads
  sreq,             \* the requests of the summarize route
  page              \* the page: its React state and the run of analyze()

vars == <<cachedModel, buildingPromise, builds, req, call, result, env, sreq, page>>

\* the state outside the bias route and the function-level specifications
frontVars == <<env, sreq, page>>

\* the route before its first request
Idle ==
  /\ cachedModel = 0
  /\ buildingPromise = 0
  /\ builds = <<>>
  /\ req = [r \in Req |-> [pc |-> "new"]]
  /\ env = NoEnv
  /\ sreq = [r \in SumReq |-> [pc |-> "new"]]
  /\ page = [pc |-> "closed"]

\* a model object is named by the build that made it: two references are
\* identical iff they name the same build.  ModelOf(b) is the object build b returned.
ModelOf(b) == buildModel(builds[b].rows)

Init ==
  /\ Idle
  /\ call = [fn |-> "none"]
  /\ result = [fn |-> "none"]

\* a request arrives: POST runs to await req.json()
Arrive(r, body) ==
  /\ req[r].pc = "new"
  /\ req' = [req EXCEPT ![r] = [pc |-> "json", body |-> body]]
  /\ UNCHANGED <<cachedModel, buildingPromise, builds, call, result, frontVars>>

\* mutant: getModel without its in-flight guard
GetModelBranchNoJoin(cached, building) == IF cached # 0 THEN "cached" ELSE "build"

\* mutant: getModel that never looks at the cache
GetModelBranchNoCache(cached, building) == IF building # 0 THEN "join" ELSE "build"

\* the branch getModel takes
GetModelBranch(cached, building) ==
  IF cached # 0 THEN "cached" ELSE IF building # 0 THEN "join" ELSE "build"

\* buildModel() up to its first await: fetchRawCsvRows has issued the fetch of
\* urls[0].  fetched lists the candidates fetched so far, failed those the loader
\* gave up, resp is the latest response and last the branch it took, loader tells
\* how fetchRawCsvRows ended and rows is what buildModel got from it; netError
\* tells that a fetch of this load has rejected.
\* The model object a build returns is immutable and a function of those rows
\* (ModelOf), so the state keeps the rows and names the object by its build.
NewBuild ==
  [phase |-> "fetching", loader |-> "running", k |-> 1, fetched |-> <<1>>,
   failed |-> <<>>, last |-> "none", resp |-> [kind |-> "none"], rows |-> <<>>,
   netError |-> FALSE]

\* the synchronous run of getModel for request r, which then awaits the result
getModel(r, text) ==
  LET branch == GetModelBranch(cachedModel, buildingPromise)
      seen == [cached |-> cachedModel, building |-> buildingPromise,
               builds |-> Len(builds)]
  IN
  IF branch = "cached" THEN
    /\ req' = [req EXCEPT ![r] = [pc |-> "await", text |-> text, seen |-> seen,
                                  promise |-> 0, model |-> cachedModel]]
    /\ UNCHANGED <<cachedModel, buildingPromise, builds, call, result, frontVars>>
  ELSE IF branch = "join" THEN
    /\ req' = [req EXCEPT ![r] = [pc |-> "await", text |-> text, seen |-> seen,
                                  promise |-> buildingPromise, model |-> 0]]
    /\ UNCHANGED <<cachedModel, buildingPromise, builds, call, result, frontVars>>
  ELSE
    /\ builds' = Append(builds, NewBuild)
    /\ buildingPromise' = Len(builds) + 1
    /\ req' = [req EXCEPT ![r] = [pc |-> "await", text |-> text, seen |-> seen,
                                  promise |-> Len(builds) + 1, model |-> 0]]
    /\ UNCHANGED <<cachedModel, call, result, frontVars>>

\* req.json() settles: 400 on a missing text, else getModel()
Parsed(r) ==
  /\ req[r].pc = "json"
  /\ LET text == BodyText(req[r].body) IN
       IF Blank(text)
         THEN /\ req' = [req EXCEPT ![r] = [pc |-> "done", status |-> 400,
                                            error |-> "Missing text"]]
              /\ UNCHANGED <<cachedModel, buildingPromise, builds, call, result, frontVars>>
         ELSE getModel(r, text)

\* mutant: a loader that does not stop at the first candidate with rows
NextCandidateAlways(c, k) == ~c.thrown /\ k < NumUrls

\* whether the loader goes on to the next candidate after candidate k came to c:
\* not on if (out.length) return out, not past the last url, not on an exception
\* that leaves the loop
NextCandidate(c, k) == c.kind # "rows" /\ ~c.thrown /\ k < NumUrls

\* the build after its fetch of candidate k has come to c and the loader goes on
FetchNext(b, c, resp) ==
  [b EXCEPT !.k = @ + 1,
            !.fetched = Append(@, b.k + 1),
            !.failed = Append(@, b.k),
            !.last = c.kind,
            !.resp = resp,
            !.netError = @ \/ resp.kind = "throw"]

\* the build after the loader has ended on c (return out, return [] or an
\* exception, which the try { } catch {} of buildModel turns into no rows):
\* buildModel trains and returns, or phase is "threw"
LoaderEnded(b, c, resp, phase) ==
  [b EXCEPT !.failed = IF c.kind = "rows" THEN @ ELSE Append(@, b.k),
            !.last = c.kind,
            !.resp = resp,
            !.netError = @ \/ resp.kind = "throw",
            !.loader = IF c.thrown THEN "threw" ELSE "returned",
            !.rows = IF c.thrown THEN <<>> ELSE c.out,
            !.phase = phase]

\* the fetch of the current candidate of build b settles with resp
FetchDone(b, resp) ==
  /\ b \in 1..Len(builds)
  /\ builds[b].phase = "fetching"
  /\ \E c \in {Candidate(resp, Limit)} :
       builds' = [builds EXCEPT ![b] =
                    IF NextCandidate(c, builds[b].k)
                      THEN FetchNext(builds[b], c, resp)
                      ELSE LoaderEnded(builds[b], c, resp, "returned")]
  /\ UNCHANGED <<cachedModel, buildingPromise, req, call, result, frontVars>>

\* a .then callback that caches the model and leaves buildingPromise set
ThenKeepsMarker(b) ==
  /\ b \in 1..Len(builds)
  /\ builds[b].phase = "returned"
  /\ cachedModel' = b
  /\ builds' = [builds EXCEPT ![b].phase = "fulfilled"]
  /\ UNCHANGED <<buildingPromise, req, call, result, frontVars>>

\* the .then callback of getModel's chain
Then(b) ==
  /\ b \in 1..Len(builds)
  /\ builds[b].phase = "returned"
  /\ cachedModel' = b
  /\ buildingPromise' = 0
  /\ builds' = [builds EXCEPT ![b].phase = "fulfilled"]
  /\ UNCHANGED <<req, call, result, frontVars>>

\* whether the promise request r awaits has settled
Settled(r) ==
  IF req[r].promise = 0 THEN TRUE
  ELSE builds[req[r].promise].phase \in {"fulfilled", "rejected"}

\* await getModel() settles for request r: predict and answer, or the catch of POST
Resume(r) ==
  /\ req[r].pc = "await"
  /\ Settled(r)
  /\ IF req[r].promise # 0 /\ builds[req[r].promise].phase = "rejected"
       THEN req' = [req EXCEPT ![r] = [pc |-> "done", status |-> 500,
                                       error |-> "Internal error",
                                       seen |-> req[r].seen, promise |-> req[r].promise]]
       ELSE LET m == IF req[r].promise = 0 THEN req[r].model ELSE req[r].promise IN
         req' = [req EXCEPT ![r] =
                   [pc |-> "done", seen |-> req[r].seen, promise |-> req[r].promise,
                    model |-> m, text |-> req[r].text]
                     @@ BiasResponse(ModelOf(m), req[r].text)]
  /\ UNCHANGED <<cachedModel, buildingPromise, builds, call, result, frontVars>>

Next ==
  \/ \E r \in Req, body \in Bodies : Arrive(r, body)
  \/ \E r \in Req : Parsed(r)
  \/ \E b \in Req, resp \in Responses : FetchDone(b, resp)
  \/ \E b \in Req : Then(b)
  \/ \E r \in Req : Resume(r)

Spec == Init /\ [][Next]_vars

\* request r awaits a promise that has settled: the continuation of POST is
\* queued.  This is the enabling condition of Resume(r).
ResumeDue(r) == req[r].pc = "await" /\ Settled(r)

\* The route where every step that is due is taken: the body of a request is
\* read, every fetch of a candidate settles (with a response or an exception),
\* and the callbacks and continuations the event loop has queued run.  A step
\* Resume(r) ends ResumeDue(r) for good, so the last conjunct is
\* WF_vars(Resume(r)) written with the enabling condition.
SpecLive ==
  /\ Spec
  /\ WF_vars(\E r \in Req : Parsed(r))
  /\ WF_vars(\E b \in Req, resp \in Responses : FetchDone(b, resp))
  /\ WF_vars(\E b \in Req : Then(b))
  /\ \A r \in Req : []<>(~ResumeDue(r))

(***************************************************************************)
(* The same with a build that fails: an exception escapes buildModel after *)
(* the loader has returned (the runtime throws while training), so the     *)
(* .catch callback of getModel's chain runs.                               *)
(***************************************************************************)
BuildThrows(b, resp) ==
  /\ b \in 1..Len(builds)
  /\ builds[b].phase = "fetching"
  /\ \E c \in {Candidate(resp, Limit)} :
       /\ ~NextCandidate(c, builds[b].k)
       /\ builds' = [builds EXCEPT ![b] = LoaderEnded(builds[b], c, resp, "threw")]
  /\ UNCHANGED <<cachedModel, buildingPromise, req, call, result, frontVars>>

\* mutant: a .catch callback that leaves buildingPromise set
CatchKeepsMarker(b) ==
  /\ b \in 1..Len(builds)
  /\ builds[b].phase = "threw"
  /\ builds' = [builds EXCEPT ![b].phase = "rejected"]
  /\ UNCHANGED <<cachedModel, buildingPromise, req, call, result, frontVars>>

\* the .catch callback of getModel's chain
Catch(b) ==
  /\ b \in 1..Len(builds)
  /\ builds[b].phase = "threw"
  /\ buildingPromise' = 0
  /\ builds' = [builds EXCEPT ![b].phase = "rejected"]
  /\ UNCHANGED <<cachedModel, req, call, result, frontVars>>

NextFault ==
  \/ Next
  \/ \E b \in Req, resp \in Responses : BuildThrows(b, resp)
  \/ \E b \in Req : Catch(b)

SpecFault == Init /\ [][NextFault]_vars

(***************************************************************************)
(* The route with a loader that throws: fetchRawCsvRows has no statement    *)
(* that throws outside its own try block, buildModel nevertheless calls it  *)
(* inside try { } catch {} and goes on with no rows.                        *)
(***************************************************************************)
LoaderThrows(b) ==
  /\ b \in 1..Len(builds)
  /\ builds[b].phase = "fetching"
  /\ builds' = [builds EXCEPT ![b].loader = "threw", ![b].rows = <<>>,
                               ![b].phase = "returned"]
  /\ UNCHANGED <<cachedModel, buildingPromise, req, call, result, frontVars>>

NextLoaderFault ==
  \/ Next
  \/ \E b \in Req : LoaderThrows(b)

SpecLoaderFault == Init /\ [][NextLoaderFault]_vars

(***************************************************************************)
(* The classifier as functions: trainNaiveBayes applied to a sequence of   *)
(* labelled rows, then the 200 answer of POST for the model and a text.    *)
(***************************************************************************)
\* the longest training sequence drawn
MaxRows == 3

\* texts of training rows: a repeated token, upper case, a stop word, no token
TrainTexts == {"dog Dog, dog!", "The cat: emu", "emu dog", "it"}

TrainRows == { [text |-> t, label |-> l] : t \in TrainTexts, l \in Label }

RowSeqs == UNION { [1..n -> TrainRows] : n \in 0..MaxRows }

\* query texts: empty, without a token, known tokens, a repeated token, unknown tokens
QueryTexts == {"", "of it", "Dog", "emu cat emu", "fox gnu"}

InitClassifier ==
  /\ Idle
  /\ call \in { [fn |-> "classify", rows |-> rs, text |-> t] :
                  rs \in RowSeqs, t \in QueryTexts }
  /\ result = [fn |-> "none"]

\* trainNaiveBayes(rows)
Train ==
  /\ result.fn = "none"
  /\ result' = [fn |-> "train", model |-> trainNaiveBayes(call.rows)]
  /\ UNCHANGED <<cachedModel, buildingPromise, builds, req, call, frontVars>>

\* predict(model, text) and the body POST builds from it
Answer ==
  /\ result.fn = "train"
  /\ result' = [fn |-> "answer", model |-> result.model,
                 body |-> BiasResponse(result.model, call.text)]
  /\ UNCHANGED <<cachedModel, buildingPromise, builds, req, call, frontVars>>

NextClassifier == Train \/ Answer

SpecClassifier == InitClassifier /\ [][NextClassifier]_vars

(***************************************************************************)
(* The summarizer as a function: extractiveSummary applied to a text and a *)
(* number of bullets.                                                      *)
(***************************************************************************)
\* the greatest maxPoints drawn (the route calls extractiveSummary(text, 5))
MaxPoints == 6

\* a text that reads like the first bullet of its own summary
EchoOne ==
  "- topic: topic"

\* a text that reads like the first two bullets of its own summary
EchoTwo ==
  "- Topic: Topic\n- Key terms: topic, key, terms"

\* a text that reads like all the bullets of its own summary: the third bullet
\* is the text itself cut at 160 characters
EchoAll ==
  "- Topic: Topic\n- Key terms: topic, key, terms, summary\n- Summary: "
    \o "- Topic: Topic - Key terms: topic, key, terms, summary - Summary: "
    \o "- Topic: Topic - Key terms: topic, key, terms, summary - Summary: "
    \o "- Topic: Topic - Key terms:~"

\* white space only
OnlySpace ==
  " \n"

\* runs of white space around two words
Spaced ==
  "  Hello   world \n"

\* no token: stop words and short words only
NoToken ==
  "It is a an."

\* numbers, a month and a year; three sentences
Facts ==
  "Rates rose 3.5% in May 2024; 1,200 jobs were cut. Markets fell."

\* seven sentences, more than 280 characters: the standard path
Article ==
  "The council approved the budget on Monday. The budget raises school "
    \o "funding by 4% over 2023. Critics of the budget say the council ignored "
    \o "road repairs! Supporters reply that road repairs are funded separately; "
    \o "the mayor will sign the budget in June. A vote on road repairs follows "
    \o "in the autumn? Nobody knows yet."

\* more than 280 characters in one sentence: the short path, cut at 160
LongTwo ==
  "Heavy rain, strong wind and rising rivers, which forecasters had warned "
    \o "about for days, closed roads, schools and rail lines across the northern "
    \o "valleys on Tuesday, while crews worked through the night to reinforce "
    \o "levees, move residents to shelters and restore power to thousands "
    \o "of homes and farms in the region"

\* the standard path with a sentence of more than 180 characters
LongSentence ==
  "Short lead. The second sentence of this report runs on and on, through "
    \o "clause after clause, listing the towns, the dates, the officials, "
    \o "the agencies, the budgets and the promises that were made, so that "
    \o "it is far longer than any bullet may be, and it ends here. Third one "
    \o "is brief. Fourth one is brief too. Fifth closes the report."

\* no . , or space after position 40 of the first 160 characters
NoBreak ==
  "Lead, abcdefghijabcdefghijabcdefghijabcdefghijabcdefghijabcdefghij"
    \o "abcdefghijabcdefghijabcdefghijabcdefghijabcdefghijabcdefghijabcdef"
    \o "ghijabcdefghijabcdefghijabcdefghijabcdefghijabcdefghijabcdefghijabcdefghij"

\* upper case, a colon, a number with a group of thousands
Upper ==
  "BREAKING NEWS: MARKETS RALLY. STOCKS UP 2,500 POINTS!"

\* 17 sentences, more than 280 characters: ceil(17 / 4) = 5 bullets
Digest ==
  "Storm hits coast. Rain floods farms. Storm closes port. Wind fells trees. "
    \o "Storm floods coast roads. Port stays shut. Farms lose crops. Trees block "
    \o "roads. Crews clear roads. Rain eases slowly. Port opens late. Coast storm "
    \o "ends. Farms seek aid. Aid comes late. Roads open again. Crops rot. "
    \o "Calm returns now."

SummaryTexts ==
  {EchoOne, EchoTwo, EchoAll, OnlySpace, Spaced, NoToken,
   Facts, Article, LongTwo, LongSentence, NoBreak, Upper, Digest}

InitSummary ==
  /\ Idle
  /\ call \in { [fn |-> "summarize", text |-> t, maxPoints |-> n] :
                  t \in SummaryTexts, n \in 1..MaxPoints }
  /\ result = [fn |-> "none"]

\* extractiveSummary(text, maxPoints)
Summarize ==
  /\ result.fn = "none"
  /\ result' = [fn |-> "summary", out |-> extractiveSummary(call.text, call.maxPoints)]
  /\ UNCHANGED <<cachedModel, buildingPromise, builds, req, call, frontVars>>

NextSummary == Summarize

SpecSummary == InitSummary /\ [][NextSummary]_vars

(***************************************************************************)
(* The summarize route (unnamed/part_000, POST): a request reads its body, *)
(* answers 400 on a missing text, calls the provider when a key is set and *)
(* falls back to extractiveSummary(text, 5).                               *)
(***************************************************************************)
\* process.env.GEMINI_API_KEY || process.env.GOOGLE_GENERATIVE_AI_API_KEY
apiKey(e) ==
  IF e.GEMINI_API_KEY # "" THEN e.GEMINI_API_KEY ELSE e.GOOGLE_GENERATIVE_AI_API_KEY

\* what await generateText(...) can come to: { text: out }, or a thrown Error
\* with or without a message, or a thrown string
ProviderOutcomes ==
  {[kind |-> "text", text |-> "- Point one\n- Point two"],
   [kind |-> "Error", message |-> "quota exceeded"],
   [kind |-> "Error", message |-> ""],
   [kind |-> "string", value |-> "timeout"]}

\* String(providerErr?.message || providerErr)
ErrorString(err) ==
  IF err.kind = "Error"
    THEN (IF err.message # "" THEN err.message ELSE "Error")
    ELSE err.value

\* the number of bullets the route asks extractiveSummary for
FallbackPoints == 5

\* a fallback answer that keeps the provider's failure to itself
FallbackBodySilent(text, err) ==
  [summary |-> extractiveSummary(text, FallbackPoints)]

\* the body of the answer in the catch of the provider call (36-37)
FallbackBody(text, err) ==
  [summary |-> extractiveSummary(text, FallbackPoints), providerError |-> ErrorString(err)]

\* NextResponse.json(body, { status }) for request r
Respond(r, status, body, called) ==
  sreq' = [sreq EXCEPT ![r] = [pc |-> "done", req |-> sreq[r].body, status |-> status,
                                body |-> body, called |-> called]]

\* a request arrives: POST runs to await req.json()
SumArrive(r, body) ==
  /\ sreq[r].pc = "new"
  /\ sreq' = [sreq EXCEPT ![r] = [pc |-> "json", body |-> body]]
  /\ UNCHANGED <<cachedModel, buildingPromise, builds, req, call, result, env, page>>

\* req.json() settles.  A rejection, and the destructuring of null, throw into
\* the outer catch (500); a missing or blank text is answered 400; with a key
\* generateText is called and awaited; without one the fallback is the answer.
SumParsed(r) ==
  /\ sreq[r].pc = "json"
  /\ IF sreq[r].body.kind \in {"unparseable", "null"}
       THEN Respond(r, 500, [error |-> "Internal error"], FALSE)
     ELSE IF Blank(BodyText(sreq[r].body))
       THEN Respond(r, 400, [error |-> "Missing text"], FALSE)
     ELSE IF apiKey(env) # ""
       THEN sreq' = [sreq EXCEPT ![r] = [pc |-> "provider", body |-> sreq[r].body,
                                          key |-> apiKey(env)]]
     ELSE Respond(r, 200,
                  [summary |-> extractiveSummary(BodyText(sreq[r].body), FallbackPoints)],
                  FALSE)
  /\ UNCHANGED <<cachedModel, buildingPromise, builds, req, call, result, env, page>>

\* await generateText(...) settles with outcome o
ProviderDone(r, o) ==
  /\ sreq[r].pc = "provider"
  /\ sreq' = [sreq EXCEPT ![r] =
                [pc |-> "done", req |-> sreq[r].body, status |-> 200,
                 body |-> IF o.kind = "text" THEN [summary |-> o.text]
                          ELSE FallbackBody(BodyText(sreq[r].body), o),
                 called |-> TRUE, outcome |-> o]]
  /\ UNCHANGED <<cachedModel, buildingPromise, builds, req, call, result, env, page>>

InitSummarize ==
  /\ cachedModel = 0
  /\ buildingPromise = 0
  /\ builds = <<>>
  /\ req = [r \in Req |-> [pc |-> "new"]]
  /\ call = [fn |-> "none"]
  /\ result = [fn |-> "none"]
  /\ env \in Envs
  /\ sreq = [r \in SumReq |-> [pc |-> "new"]]
  /\ page = [pc |-> "closed"]

NextSummarize ==
  \/ \E r \in SumReq, body \in Bodies : SumArrive(r, body)
  \/ \E r \in SumReq : SumParsed(r)
  \/ \E r \in SumReq, o \in ProviderOutcomes : ProviderDone(r, o)

SpecSummarize == InitSummarize /\ [][NextSummarize]_vars

(***************************************************************************)
(* The two routes side by side: the requests of the bias route and one     *)
(* request of the summarize route, in one process.  The dataset fetch      *)
(* answers with the one document whose rows are all accepted.              *)
(***************************************************************************)
RouteResponses ==
  {resp \in Responses : resp.kind = "ok" /\ resp.csv = "label,body\nslightly,Some say so\n"}

InitRoutes ==
  /\ cachedModel = 0
  /\ buildingPromise = 0
  /\ builds = <<>>
  /\ req = [r \in Req |-> [pc |-> "new"]]
  /\ call = [fn |-> "none"]
  /\ result = [fn |-> "none"]
  /\ env \in Envs
  /\ sreq = [r \in SumReq |-> [pc |-> "new"]]
  /\ page = [pc |-> "closed"]

NextRoutes ==
  \/ \E r \in Req, body \in Bodies : Arrive(r, body)
  \/ \E r \in Req : Parsed(r)
  \/ \E b \in Req, resp \in RouteResponses : FetchDone(b, resp)
  \/ \E b \in Req : Then(b)
  \/ \E r \in Req : Resume(r)
  \/ \E body \in Bodies : SumArrive(1, body)
  \/ SumParsed(1)
  \/ \E o \in ProviderOutcomes : ProviderDone(1, o)

SpecRoutes == InitRoutes /\ [][NextRoutes]_vars

(***************************************************************************)
(* The page (app/layout.tsx, HomePage): the React state text, loading,     *)
(* bias and summary, and the run of analyze().  toasts lists the titles of *)
(* the toasts of the latest click; biasRes and sumRes are what the two     *)
(* fetches of the run have come to.                                        *)
(***************************************************************************)
\* what the user can have in the text area
PageTexts == {"", "  ", "Some news"}

Null == [kind |-> "null"]

Pending == [kind |-> "pending"]

Rejected == [kind |-> "rejected"]

\* a response whose body res.json() cannot read
Unreadable == [kind |-> "unreadable"]

Str(s) == [kind |-> "string", value |-> s]

\* what fetch("/api/bias") can come to: a rejection, a response that is not ok,
\* an ok response with a body that cannot be read, an ok response with a result
BiasOutcomes ==
  {Rejected,
   [kind |-> "response", ok |-> FALSE, body |-> Unreadable],
   [kind |-> "response", ok |-> TRUE, body |-> Unreadable]}
    \cup {[kind |-> "response", ok |-> TRUE, body |-> [kind |-> "json", label |-> l]] :
            l \in {"neutral", "highly-biased"}}

\* what fetch("/api/summarize") can come to; summary "" stands for a body
\* without a summary
SumOutcomes ==
  {Rejected,
   [kind |-> "response", ok |-> FALSE, body |-> Unreadable],
   [kind |-> "response", ok |-> TRUE, body |-> Unreadable]}
    \cup {[kind |-> "response", ok |-> TRUE, body |-> [kind |-> "json", summary |-> t]] :
            t \in {"", "- Point one"}}

\* finally { setLoading(false) }
Finally(p) == [p EXCEPT !.loading = FALSE, !.pc = "done"]

\* catch (err) { toast(...) } finally { ... }
CatchAll(p) == Finally([p EXCEPT !.toasts = Append(@, "Something went wrong")])

\* the summary handling (103-108) up to its await, or to the end of analyze
SummaryHandling(p) ==
  IF p.sumRes.ok THEN [p EXCEPT !.pc = "sumJson"]
  ELSE Finally([p EXCEPT !.summary =
                  Str("Summary service not configured or temporarily unavailable.")])

\* the bias handling (91-100) up to its await, or on to the summary handling
BiasHandling(p) ==
  IF p.biasRes.ok THEN [p EXCEPT !.pc = "biasJson"]
  ELSE SummaryHandling([p EXCEPT !.toasts = Append(@, "Bias analysis failed")])

\* await Promise.all([biasReq, sumReq]) after a fetch has settled: it rejects
\* with the first rejection, is fulfilled when both responses are there
AfterAll(p) ==
  IF Rejected \in {p.biasRes, p.sumRes} THEN CatchAll(p)
  ELSE IF Pending \in {p.biasRes, p.sumRes} THEN p
  ELSE BiasHandling(p)

\* the user edits the text area
Type(t) ==
  /\ page.text # t
  /\ page' = [page EXCEPT !.text = t]
  /\ UNCHANGED <<cachedModel, buildingPromise, builds, req, call, result, env, sreq>>

\* the user clicks Analyze (the button is disabled while loading): analyze()
\* runs to its return or to await Promise.all
Click ==
  /\ ~page.loading
  /\ page' = IF trim(page.text) = ""
               THEN [page EXCEPT !.toasts = <<"Add article text">>]
               ELSE [page EXCEPT !.pc = "all", !.loading = TRUE, !.bias = Null,
                                 !.summary = Null, !.toasts = <<>>,
                                 !.biasRes = Pending, !.sumRes = Pending]
  /\ UNCHANGED <<cachedModel, buildingPromise, builds, req, call, result, env, sreq>>

\* fetch("/api/bias") settles
BiasSettles(o) ==
  /\ page.pc = "all"
  /\ page.biasRes = Pending
  /\ page' = AfterAll([page EXCEPT !.biasRes = o])
  /\ UNCHANGED <<cachedModel, buildingPromise, builds, req, call, result, env, sreq>>

\* fetch("/api/summarize") settles
SumSettles(o) ==
  /\ page.pc = "all"
  /\ page.sumRes = Pending
  /\ page' = AfterAll([page EXCEPT !.sumRes = o])
  /\ UNCHANGED <<cachedModel, buildingPromise, builds, req, call, result, env, sreq>>

\* await biasRes.json() settles: setBias and the summary handling, or the catch
BiasJson ==
  /\ page.pc = "biasJson"
  /\ page' = IF page.biasRes.body = Unreadable THEN CatchAll(page)
             ELSE SummaryHandling([page EXCEPT !.bias = page.biasRes.body])
  /\ UNCHANGED <<cachedModel, buildingPromise, builds, req, call, result, env, sreq>>

\* await sumRes.json() settles: setSummary(summary || "Summary not available.")
SumJson ==
  /\ page.pc = "sumJson"
  /\ page' = IF page.sumRes.body = Unreadable THEN CatchAll(page)
             ELSE Finally([page EXCEPT !.summary =
                             Str(IF page.sumRes.body.summary # ""
                                   THEN page.sumRes.body.summary
                                   ELSE "Summary not available.")])
  /\ UNCHANGED <<cachedModel, buildingPromise, builds, req, call, result, env, sreq>>

InitPage ==
  /\ cachedModel = 0
  /\ buildingPromise = 0
  /\ builds = <<>>
  /\ req = [r \in Req |-> [pc |-> "new"]]
  /\ call = [fn |-> "none"]
  /\ result = [fn |-> "none"]
  /\ env = NoEnv
  /\ sreq = [r \in SumReq |-> [pc |-> "new"]]
  /\ page = [pc |-> "idle", text |-> "", loading |-> FALSE, bias |-> Null,
             summary |-> Null, toasts |-> <<>>, biasRes |-> Null, sumRes |-> Null]

NextPage ==
  \/ \E t \in PageTexts : Type(t)
  \/ Click
  \/ \E o \in BiasOutcomes : BiasSettles(o)
  \/ \E o \in SumOutcomes : SumSettles(o)
  \/ BiasJson
  \/ SumJson

SpecPage == InitPage /\ [][NextPage]_vars

(***************************************************************************)
(* parseCSV as a function: applied to a text, to the text with \r\n for    *)
(* the line ends outside quoted fields, to the text with one more newline, *)
(* and to a row that holds the text as a quoted field.                     *)
(***************************************************************************)
\* the longest text drawn from the alphabet
MaxCsvLen == 3

CsvAlphabet == {"a", ",", "\"", "\n"}

RECURSIVE CsvWords(_)
CsvWords(n) ==
  IF n = 0 THEN {""}
  ELSE LET shorter == CsvWords(n - 1)
       IN shorter \cup { w \o c : w \in shorter, c \in CsvAlphabet }

\* documents with a header, quoted fields and line ends of both kinds, and the
\* content of a field with a comma and quotes
CsvTexts ==
  CsvWords(MaxCsvLen) \cup Csvs
    \cup {"a, \"quoted\" value", "id,text\n1,\"one\ntwo\"\n2,\"a, \"\"quoted\"\" value\"\n"}

\* the text with \r\n in place of every \n that is not inside a quoted field
Crlf(text) ==
  Loop(LAMBDA st, i :
         IF CharAt(text, i) = "\"" THEN [out |-> st.out \o "\"", inQuotes |-> ~st.inQuotes]
         ELSE IF CharAt(text, i) = "\n" /\ ~st.inQuotes
           THEN [out |-> st.out \o "\r\n", inQuotes |-> FALSE]
         ELSE [out |-> st.out \o CharAt(text, i), inQuotes |-> st.inQuotes],
       [out |-> "", inQuotes |-> FALSE], 1, Len(text)).out

\* the text as a quoted field: every quote doubled, a quote at both ends
Quoted(text) ==
  "\"" \o Loop(LAMBDA out, i : IF CharAt(text, i) = "\"" THEN out \o "\"\""
                                ELSE out \o CharAt(text, i),
               "", 1, Len(text)) \o "\""

InitCsv ==
  /\ Idle
  /\ call \in { [fn |-> "parseCSV", text |-> t] : t \in CsvTexts }
  /\ result = [fn |-> "none"]

\* parseCSV(text) and parseCSV of the three variants of the text
Parse ==
  /\ call.fn = "parseCSV"
  /\ result.fn = "none"
  /\ result' = [fn |-> "parseCSV",
                 rows |-> parseCSV(call.text),
                 crlf |-> parseCSV(Crlf(call.text)),
                 more |-> parseCSV(call.text \o "\n"),
                 quoted |-> parseCSV("x," \o Quoted(call.text) \o ",y\n")]
  /\ UNCHANGED <<cachedModel, buildingPromise, builds, req, call, frontVars>>

NextCsv == Parse

SpecCsv == InitCsv /\ [][NextCsv]_vars

(***************************************************************************)
(* The row loop of fetchRawCsvRows as a function: applied to the rows of a *)
(* parsed document (header text,label) and a limit.                        *)
(***************************************************************************)
\* the most data rows of a document drawn
MaxDataRows == 3

\* the greatest limit drawn (buildModel passes 2000)
MaxLimit == 2

\* texts of data rows: empty, white space, a sentence
RowTexts == {"", " ", "A cat"}

\* raw labels of data rows
RawLabels ==
  {"Highly Biased", "HIGHLY biased", "left-leaning", "Slightly Neutral",
   "slight/strong", "EXTREME"}

\* data rows: a text and a label, or a row that ends before its label
DataRows == { <<t, l>> : t \in RowTexts, l \in RawLabels } \cup {<<"A cat">>}

RECURSIVE RowLists(_)
RowLists(n) ==
  IF n = 0 THEN {<<>>}
  ELSE LET shorter == RowLists(n - 1)
       IN shorter \cup { Append(rs, r) : rs \in { x \in shorter : Len(x) = n - 1 },
                                         r \in DataRows }

InitRows ==
  /\ Idle
  /\ call \in { [fn |-> "rows", rows |-> rs, limit |-> n] :
                  rs \in RowLists(MaxDataRows), n \in 1..MaxLimit }
  /\ result = [fn |-> "none"]

\* the loop at 271-278 over the document whose header is text,label
Accept ==
  /\ call.fn = "rows"
  /\ result.fn = "none"
  /\ result' = [fn |-> "rows",
                 out |-> AcceptedRows(<<<<"text", "label">>>> \o call.rows, 1, 2, call.limit)]
  /\ UNCHANGED <<cachedModel, buildingPromise, builds, req, call, frontVars>>

NextRows == Accept

SpecRows == InitRows /\ [][NextRows]_vars

(***************************************************************************)
(* Properties of the model cache and the dataset loader                    *)
(***************************************************************************)
Upto(n) == [i \in 1..n |-> i]

Failures == {"exception", "notOk", "emptyParse", "noColumn", "zeroRows"}

\* the builds whose buildModel run has not returned yet
Running == { b \in 1..Len(builds) : builds[b].phase = "fetching" }

\* request r has called getModel
Called(r) == req[r].pc = "await" \/ (req[r].pc = "done" /\ req[r].status # 400)

\* C1: at most one buildModel run is in flight at any time; a getModel call made
\* while a build is in flight (no model cached, buildingPromise set) joins that
\* build and starts none; calls made before any model exists trigger exactly
\* one training run.
C1_AtMostOneBuild ==
  /\ Cardinality(Running) <= 1
  /\ \A r \in Req :
       Called(r) /\ req[r].seen.cached = 0 /\ req[r].seen.building # 0
         => req[r].promise = req[r].seen.building
  /\ Cardinality({ r \in Req : Called(r) /\ req[r].seen.cached = 0
                                /\ req[r].seen.building = 0 }) = Len(builds)
  /\ (\E r \in Req : Called(r)) => Len(builds) = 1

\* two requests wait on the one build, which is still fetching
C1_Witness ==
  \E r1, r2 \in Req :
    /\ r1 # r2
    /\ req[r1].pc = "await" /\ req[r2].pc = "await"
    /\ req[r1].promise = 1 /\ req[r2].promise = 1
    /\ req[r2].seen.building = 1
    /\ builds[1].phase = "fetching"
    /\ cachedModel = 0

\* C2: once a build has succeeded the cached model is never replaced or cleared
\* and no further build or fetch happens; every request answered with a model,
\* whether it started the build, joined it or came later, got that same object.
C2_CacheIdempotent ==
  /\ [][cachedModel # 0 =>
          cachedModel' = cachedModel /\ builds' = builds /\ buildingPromise' = 0]_vars
  /\ [](\A r \in Req :
          req[r].pc = "done" /\ req[r].status = 200
            => cachedModel # 0 /\ req[r].model = cachedModel)

\* one request was answered from the build it awaited, another from the cache
C2_Witness ==
  \E r1, r2 \in Req :
    /\ req[r1].pc = "done" /\ req[r1].status = 200 /\ req[r1].seen.cached = 0
    /\ req[r2].pc = "done" /\ req[r2].status = 200 /\ req[r2].seen.cached # 0
    /\ req[r1].model = req[r2].model

\* C3: a failed build clears buildingPromise and caches nothing; every request
\* that waited on it sees the failure; a getModel call made afterwards (nothing
\* cached, no marker) starts a fresh build.
C3_FailedBuildCleared ==
  /\ \A b \in 1..Len(builds) :
       builds[b].phase = "rejected" => buildingPromise # b /\ cachedModel # b
  /\ cachedModel # 0 => builds[cachedModel].phase = "fulfilled"
  /\ \A r \in Req :
       req[r].pc = "done" /\ req[r].status # 400 /\ req[r].promise # 0
         => (req[r].status = 500 <=> builds[req[r].promise].phase = "rejected")
  /\ \A r \in Req :
       Called(r) /\ req[r].seen.cached = 0 /\ req[r].seen.building = 0
         => req[r].promise = req[r].seen.builds + 1

\* a request got the failure of build 1, and a later one waits on a fresh build 2
C3_Witness ==
  \E r1, r2 \in Req :
    /\ req[r1].pc = "done" /\ req[r1].status = 500 /\ req[r1].promise = 1
    /\ req[r2].pc = "await" /\ req[r2].promise = 2 /\ req[r2].seen.builds = 1
    /\ builds[1].phase = "rejected"
    /\ builds[2].phase = "fetching"
    /\ cachedModel = 0

\* C4: within one load the candidates are fetched in their listed order, one
\* after the other; candidate k + 1 is fetched only after candidate k has failed;
\* the load stops at the first candidate with an accepted row, returns that
\* candidate's rows and fetches no later candidate.
C4_PriorityOrder ==
  \A b \in 1..Len(builds) :
    LET B == builds[b] IN
      /\ B.k <= NumUrls
      /\ B.fetched = Upto(B.k)
      /\ IF B.phase = "fetching"
           THEN /\ B.failed = Upto(B.k - 1)
                /\ B.k > 1 => B.last \in Failures
           ELSE IF B.last = "rows"
             THEN /\ B.failed = Upto(B.k - 1)
                  /\ Len(B.rows) >= 1
                  /\ B.rows = TryCandidate(B.resp, Limit).out
             ELSE /\ B.last \in Failures
                  /\ B.k = NumUrls
                  /\ B.failed = Upto(NumUrls)

\* a load that stopped at its third candidate after two failures
C4_Witness ==
  \E b \in 1..Len(builds) :
    /\ builds[b].phase = "returned"
    /\ builds[b].fetched = <<1, 2, 3>>
    /\ builds[b].failed = <<1, 2>>
    /\ builds[b].last = "rows"

\* C5 as stated: the loader returns an empty sequence if all candidates fail or
\* a network error occurs while fetching a candidate, and never throws.
C5_EmptyOnAnyNetworkError ==
  \A b \in 1..Len(builds) :
    LET B == builds[b] IN
      /\ B.loader # "threw"
      /\ B.loader = "returned" /\ (B.failed = Upto(NumUrls) \/ B.netError)
           => B.rows = <<>>

\* C5 amended: the loader never throws, and it returns an empty sequence exactly
\* when every candidate has failed; a network error is the failure of that
\* candidate only, after which the next candidate is fetched.
C5_EmptyIffAllFail ==
  \A b \in 1..Len(builds) :
    LET B == builds[b] IN
      /\ B.loader # "threw"
      /\ B.loader = "returned" => (B.rows = <<>> <=> B.failed = Upto(NumUrls))
      /\ B.last = "exception" /\ B.loader = "running"
           => B.k \in Range(B.failed) \cup {Len(B.failed) + 1}
      /\ B.resp.kind = "throw" /\ B.phase = "fetching"
           => B.fetched = Upto(Len(B.failed) + 1)

\* a load whose four candidates failed, the last with a network error
C5_Witness ==
  \E b \in 1..Len(builds) :
    /\ builds[b].loader = "returned"
    /\ builds[b].failed = Upto(NumUrls)
    /\ builds[b].resp.kind = "throw"
    /\ builds[b].netError
    /\ builds[b].rows = <<>>

\* C6: when the loader yields no rows the build still succeeds with the model of
\* the fallback seed (trainedOn 60, docCount 20 per label), and the requests that
\* waited on it are answered 200.
C6_SeedFallback ==
  /\ \A b \in 1..Len(builds) :
       builds[b].loader # "running" /\ builds[b].rows = <<>>
         => /\ builds[b].phase \in {"returned", "fulfilled"}
            /\ ModelOf(b).trainedOn = 60
            /\ \A l \in Label : ModelOf(b).docCount[l] = 20
  /\ \A r \in Req :
       /\ req[r].pc = "done" /\ req[r].status # 400
       /\ req[r].promise # 0 /\ builds[req[r].promise].rows = <<>>
       => req[r].status = 200 /\ req[r].trainedOn = 60

\* the request that started a build whose candidates all failed got its answer
C6_Witness ==
  \E r \in Req :
    /\ req[r].pc = "done" /\ req[r].status = 200 /\ req[r].trainedOn = 60
    /\ req[r].seen.cached = 0 /\ req[r].seen.building = 0
    /\ builds[req[r].promise].failed = Upto(NumUrls)

(***************************************************************************)
(* Properties of the trainer and the predictor                             *)
(***************************************************************************)
RECURSIVE SumSet(_, _)
SumSet(f, S) ==
  IF S = {} THEN 0 ELSE LET x == CHOOSE y \in S : TRUE IN f[x] + SumSet(f, S \ {x})

RECURSIVE ProdSet(_, _)
ProdSet(f, S) ==
  IF S = {} THEN 1 ELSE LET x == CHOOSE y \in S : TRUE IN f[x] * ProdSet(f, S \ {x})

\* the rows with label l whose text holds token t at least once
RowsWith(rows, l, t) ==
  { i \in 1..Len(rows) : rows[i].label = l /\ t \in Range(tokenize(rows[i].text)) }

\* C7: for every sequence of labelled rows, the empty one included, the model of
\* trainNaiveBayes has trainedOn = row count = sum of docCount; totalTokens[l] is
\* the sum of tokenCounts[l]; vocab is the union of the keys of the tokenCounts
\* maps; tokenCounts[l][t] is the number of rows of label l that hold t.
C7_TrainerInvariants ==
  result.fn # "none" =>
    LET m == result.model
        rows == call.rows
    IN /\ m.trainedOn = Len(rows)
       /\ SumSet(m.docCount, Label) = m.trainedOn
       /\ \A l \in Label :
            m.totalTokens[l] = SumSet(m.tokenCounts[l], DOMAIN m.tokenCounts[l])
       /\ m.vocab = UNION { DOMAIN m.tokenCounts[l] : l \in Label }
       /\ \A l \in Label :
            /\ \A t \in DOMAIN m.tokenCounts[l] :
                 m.tokenCounts[l][t] = Cardinality(RowsWith(rows, l, t))
            /\ \A i \in 1..Len(rows) : \A t \in Range(tokenize(rows[i].text)) :
                 rows[i].label = l => t \in DOMAIN m.tokenCounts[l]

\* two rows of one label hold "dog", one of them three times
C7_Witness ==
  /\ result.fn = "train"
  /\ Len(call.rows) = 3
  /\ call.rows[1] = [text |-> "dog Dog, dog!", label |-> "neutral"]
  /\ call.rows[2] = [text |-> "emu dog", label |-> "neutral"]
  /\ result.model.tokenCounts["neutral"]["dog"] = 2
  /\ result.model.totalTokens["neutral"] = 3

\* the distinct tokens of a query text
QueryTokens(text) == Range(tokenize(text))

\* the Laplace-smoothed score of label l for the token set T, as num / den
ScoreNum(m, l, T) ==
  (m.docCount[l] + 1) * ProdSet([t \in T |-> Get(m.tokenCounts[l], t) + 1], T)

ScoreDen(m, l, T) ==
  (SumSet(m.docCount, Label) + 3)
    * (m.totalTokens[l] + (IF m.vocab = {} THEN 1 ELSE Cardinality(m.vocab)))
        ^ Cardinality(T)

\* the score of label a is at least that of label b
AtLeast(m, a, b, T) == ScoreNum(m, a, T) * ScoreDen(m, b, T) >= ScoreNum(m, b, T) * ScoreDen(m, a, T)

\* the first label, in the order of Labels, whose score no label exceeds
FirstBest(m, T) ==
  Labels[CHOOSE i \in 1..Len(Labels) :
           /\ \A j \in 1..Len(Labels) : AtLeast(m, Labels[i], Labels[j], T)
           /\ \A j \in 1..(i - 1) : ~AtLeast(m, Labels[j], Labels[i], T)]

\* C8: predict returns the label with the greatest Laplace-smoothed score, the
\* first one in the order neutral, slightly-biased, highly-biased on a tie; a
\* model of zero rows, and a text without tokens on a class-balanced model,
\* give neutral.
C8_PredictArgmax ==
  result.fn = "answer" =>
    LET m == result.model
        T == QueryTokens(call.text)
    IN /\ result.body.label = FirstBest(m, T)
       /\ Len(call.rows) = 0 => result.body.label = "neutral"
       /\ (T = {} /\ \A l \in Label : m.docCount[l] = m.docCount["neutral"])
            => result.body.label = "neutral"

\* slightly-biased and highly-biased tie above neutral on a query with a token
C8_Witness ==
  /\ result.fn = "answer"
  /\ QueryTokens(call.text) # {}
  /\ result.body.label = "slightly-biased"
  /\ AtLeast(result.model, "highly-biased", "slightly-biased", QueryTokens(call.text))
  /\ ~AtLeast(result.model, "neutral", "slightly-biased", QueryTokens(call.text))

Abs(n) == IF n < 0 THEN -n ELSE n

\* C9: the probabilities of the answer hold one entry per label, every score is
\* in [0, 1], the scores sum to 1 within 1e-6 and the entries are in descending
\* order of score; for every model, the one of zero rows included, and every
\* text, those without a known token included.
C9_Probabilities ==
  result.fn = "answer" =>
    LET ps == result.body.probabilities
        sum == RSum([i \in 1..Len(ps) |-> ps[i].score], 1)
    IN /\ Len(ps) = Cardinality(Label)
       /\ { ps[i].label : i \in 1..Len(ps) } = Label
       /\ \A i \in 1..Len(ps) :
            ps[i].score.den > 0 /\ 0 <= ps[i].score.num /\ ps[i].score.num <= ps[i].score.den
       /\ Abs(sum.num - sum.den) <= sum.den \div 1000000
       /\ \A i, j \in 1..Len(ps) : i < j => ~RGreater(ps[j].score, ps[i].score)

\* a trained model answers a text none of whose tokens it knows, with unequal scores
C9_Witness ==
  /\ result.fn = "answer"
  /\ call.text = "fox gnu"
  /\ Len(call.rows) = MaxRows
  /\ result.body.probabilities[1].label = "highly-biased"
  /\ RGreater(result.body.probabilities[1].score, result.body.probabilities[2].score)
  /\ RGreater(result.body.probabilities[2].score, result.body.probabilities[3].score)

(***************************************************************************)
(* Properties of the summarizer                                            *)
(***************************************************************************)
\* C10: for every non-empty text and every maxPoints the summary is non-empty
\* and its canonical form (white space collapsed, trimmed, lower case) differs
\* from the canonical form of the text, on the short and on the standard path.
C10_NonEmptyNoEcho ==
  (result.fn = "summary" /\ call.text # "")
    => /\ result.out # ""
       /\ canonical(result.out) # canonical(call.text)

\* with the 5 bullets the route asks for, the summary of EchoAll is EchoAll
C10_Witness ==
  /\ result.fn = "summary"
  /\ call.maxPoints = 5
  /\ call.text = EchoAll
  /\ result.out = call.text

\* the lines of a summary: out.split("\n")
Lines(out) ==
  Bind(Loop(LAMBDA st, i :
              IF CharAt(out, i) = "\n"
                THEN [cur |-> "", acc |-> Append(st.acc, st.cur)]
                ELSE [cur |-> st.cur \o CharAt(out, i), acc |-> st.acc],
            [cur |-> "", acc |-> <<>>], 1, Len(out)),
       LAMBDA end : Append(end.acc, end.cur))

StartsWith(s, prefix) ==
  Len(s) >= Len(prefix) /\ SubSeq(s, 1, Len(prefix)) = prefix

\* the call takes the short path (133) or the standard path (154)
OnShortPath ==
  Bind(normalize(call.text),
       LAMBDA normalized : normalized # "" /\ isShort(normalized, Sentences(normalized)))

OnStandardPath ==
  Bind(normalize(call.text),
       LAMBDA normalized : normalized # "" /\ ~isShort(normalized, Sentences(normalized)))

ContextBullet == "- Context: brief update"

SentenceScores(sentences) ==
  Bind([i \in 1..Len(sentences) |-> summaryTokenize(sentences[i])],
       LAMBDA toks :
         Bind(Flatten(toks),
              LAMBDA all :
                [i \in 1..Len(sentences) |->
                   Loop(LAMBDA sum, j : sum + Count(all, toks[i][j]), 0, 1, Len(toks[i]))]))

\* C12: on the standard path (a normalized text of at least 280 characters and
\* more than 2 sentences) the summary has exactly
\* min(maxPoints, max(3, ceil(sentenceCount / 4))) bullets; they are the
\* truncated sentences of a set of sentences in which every sentence scores at
\* least as high as every sentence outside it; and they stand in the order of
\* the sentences in the text.
C12_StandardSelection ==
  (result.fn = "summary" /\ OnStandardPath)
    => \E sentences \in {Sentences(normalize(call.text))} :
       \E lines \in {Lines(result.out)} :
       \E score \in {SentenceScores(sentences)} :
         /\ Len(lines) = Min(call.maxPoints, Max(3, (Len(sentences) + 3) \div 4))
         /\ \E chosen \in SUBSET { i \in 1..Len(sentences) :
                                    \E j \in 1..Len(lines) :
                                      lines[j] = "- " \o truncate(sentences[i], 180) } :
              /\ Cardinality(chosen) = Len(lines)
              /\ \A j \in 1..Len(lines) :
                   lines[j] = "- " \o truncate(sentences[SortAsc(chosen)[j]], 180)
              /\ \A i \in chosen : \A u \in (1..Len(sentences)) \ chosen :
                   score[i] >= score[u]

\* 17 sentences and maxPoints = 6 give 5 bullets; the sentence with the highest
\* score, the fifth, is the fourth bullet
C12_Witness ==
  /\ result.fn = "summary"
  /\ OnStandardPath
  /\ call.text = Digest
  /\ call.maxPoints = 6
  /\ Len(Sentences(normalize(call.text))) = 17
  /\ Lines(result.out) = <<"- Storm hits coast.", "- Rain floods farms.",
                           "- Storm closes port.", "- Storm floods coast roads.",
                           "- Coast storm ends.">>
  /\ \A u \in 1..17 : SentenceScores(Sentences(normalize(call.text)))[5]
                        >= SentenceScores(Sentences(normalize(call.text)))[u]

(***************************************************************************)
(* Properties of the two routes and of the page                            *)
(***************************************************************************)
\* the summarize requests that carry a text that is not blank
WithText(r) == sreq[r].pc # "new" /\ ~Blank(BodyText(IF sreq[r].pc = "done" THEN sreq[r].req
                                                       ELSE sreq[r].body))

\* the message of a failure of the provider: the message of the Error, the
\* thrown string, or the name "Error" for an Error without a message
FailureMessage(o) ==
  IF o.kind = "string" THEN o.value
  ELSE IF o.message = "" THEN "Error" ELSE o.message

\* C13: a summarize request with a text that is not blank is answered 200.
\* Without a key the provider is not called and the body is the extractive
\* summary alone; with a key and a provider that succeeds the body is the
\* provider's output alone; with a provider that fails the body is the
\* extractive summary and providerError, the failure's message.  No answer holds
\* providerError unless the provider was called and failed.
C13_SummarizeFacade ==
  \A r \in SumReq :
    /\ sreq[r].pc = "provider" => apiKey(env) # ""
    /\ sreq[r].pc = "done" =>
         /\ "providerError" \in DOMAIN sreq[r].body
              => sreq[r].called /\ sreq[r].outcome.kind # "text"
         /\ WithText(r) =>
              /\ sreq[r].status = 200
              /\ sreq[r].called = (apiKey(env) # "")
              /\ IF ~sreq[r].called
                   THEN sreq[r].body = [summary |-> extractiveSummary(sreq[r].req.text, 5)]
                 ELSE IF sreq[r].outcome.kind = "text"
                   THEN sreq[r].body = [summary |-> sreq[r].outcome.text]
                 ELSE sreq[r].body =
                        [summary |-> extractiveSummary(sreq[r].req.text, 5),
                         providerError |-> FailureMessage(sreq[r].outcome)]

\* with only the second variable set the provider is called; it fails, and the
\* answer is 200 with the extractive summary and the message
C13_Witness ==
  /\ env.GEMINI_API_KEY = ""
  /\ sreq[1].pc = "done"
  /\ sreq[1].req = [kind |-> "text", text |-> "So strong"]
  /\ sreq[1].called
  /\ sreq[1].outcome = [kind |-> "Error", message |-> "quota exceeded"]
  /\ sreq[1].status = 200
  /\ sreq[1].body = [summary |-> "- Topic: Strong\n- Key terms: strong\n- Summary: So strong",
                     providerError |-> "quota exceeded"]

\* C14: on both routes a request whose text is absent or blank (the body is
\* unparseable, null, an object without text, or holds a blank text) is answered
\* 400 {error: "Missing text"}; it never calls getModel, so it starts no build,
\* never calls the provider and is never answered 500 (on the bias route only a
\* request that awaited a build is).
C14_MissingText400 ==
  /\ \A r \in Req :
       /\ req[r].pc = "await" => ~Blank(req[r].text)
       /\ req[r].pc = "done" =>
            IF req[r].status = 400 THEN req[r].error = "Missing text"
            ELSE IF req[r].status = 200 THEN ~Blank(req[r].text)
            ELSE req[r].promise # 0
  /\ \A r \in SumReq :
       /\ sreq[r].pc = "provider" => ~Blank(BodyText(sreq[r].body))
       /\ (sreq[r].pc = "done" /\ Blank(BodyText(sreq[r].req)))
            => /\ sreq[r].status = 400
               /\ sreq[r].body = [error |-> "Missing text"]
               /\ ~sreq[r].called

\* the same body, null, is answered 400 by the bias route and 500 by the
\* summarize route
C14_Witness ==
  /\ req[1].pc = "done"
  /\ req[1].status = 400
  /\ builds = <<>>
  /\ sreq[1].pc = "done"
  /\ sreq[1].req = [kind |-> "null"]
  /\ sreq[1].status = 500
  /\ sreq[1].body = [error |-> "Internal error"]

\* a request of the page has succeeded: an ok response with a readable result
Succeeded(res) ==
  /\ res.kind = "response"
  /\ res.ok
  /\ res.body.kind = "json"

\* C15: when analyze() has ended, whatever the other request came to (success,
\* HTTP error, rejected fetch, unreadable body), a summarize request that
\* succeeded has its summary shown and a bias request that succeeded has its
\* result shown.
C15_IndependentDegradation ==
  page.pc = "done" =>
    /\ (Succeeded(page.sumRes) /\ page.sumRes.body.summary # "")
         => page.summary = Str(page.sumRes.body.summary)
    /\ Succeeded(page.biasRes) => page.bias = page.biasRes.body

\* the summarize request has succeeded, the fetch of the bias request is
\* rejected: analyze() ends in its catch and no summary is shown
C15_Witness ==
  /\ page.pc = "done"
  /\ page.biasRes = Rejected
  /\ Succeeded(page.sumRes)
  /\ page.sumRes.body.summary = "- Point one"
  /\ page.summary = Null
  /\ page.bias = Null
  /\ page.toasts = <<"Something went wrong">>

(***************************************************************************)
(* Properties of parseCSV and of the row loop of the loader                *)
(***************************************************************************)
\* the number of quotes in text is even: no quoted field is left open
QuotesClosed(text) ==
  Cardinality({ i \in 1..Len(text) : CharAt(text, i) = "\"" }) % 2 = 0

\* the last line of the parsed text is a row of its own: more than one field,
\* or a field that is not empty
LastRowKept(text) ==
  Bind(parseCSV(text \o "\n"),
       LAMBDA rows : rows[Len(rows)] # <<"">>)

\* what C16 says of quoted fields and of line ends
CsvQuotingAndLineEnds ==
  /\ result.quoted = <<<<"x", call.text, "y">>>>
  /\ result.crlf = result.rows

\* C16 as stated: a comma, a newline and a doubled quote inside a quoted field
\* are field content (the quote once); \n and \r\n line ends give the same
\* rows; and every input gives the same rows with one more newline at its end.
C16_ParseCsv ==
  result.fn = "parseCSV" =>
    /\ CsvQuotingAndLineEnds
    /\ result.more = result.rows

\* C16, the final newline restricted to the inputs it is true of: an input
\* whose quoted fields are closed and whose last line is a row of its own gives
\* the same rows with one more newline at its end; after an empty last line the
\* added newline leaves one more row, which holds one empty field.
C16_ParseCsvLastLine ==
  result.fn = "parseCSV" =>
    /\ CsvQuotingAndLineEnds
    /\ IF ~QuotesClosed(call.text) THEN TRUE
       ELSE IF LastRowKept(call.text) THEN result.more = result.rows
       ELSE result.more = Append(result.rows, <<"">>)

\* a document with a newline, a comma and doubled quotes inside quoted fields
\* that ends in a newline: three rows, with \r\n too, and one more row with one
\* more newline
C16_Witness ==
  /\ result.fn = "parseCSV"
  /\ call.text = "id,text\n1,\"one\ntwo\"\n2,\"a, \"\"quoted\"\" value\"\n"
  /\ result.rows = <<<<"id", "text">>, <<"1", "one\ntwo">>, <<"2", "a, \"quoted\" value">>>>
  /\ result.crlf = result.rows
  /\ result.more = Append(result.rows, <<"">>)

\* the label the drawn raw labels stand for: neutral before slight before
\* high, extreme and strong, in any case; "null" for none of them
ExpectedLabel(raw) ==
  CASE raw = "Highly Biased" -> "highly-biased"
    [] raw = "HIGHLY biased" -> "highly-biased"
    [] raw = "EXTREME" -> "highly-biased"
    [] raw = "Slightly Neutral" -> "neutral"
    [] raw = "slight/strong" -> "slightly-biased"
    [] OTHER -> "null"

\* a data row the loader accepts: a text that is not empty, a recognized label
Acceptable(r) == Len(r) = 2 /\ r[1] # "" /\ ExpectedLabel(r[2]) # "null"

\* C17: the rows the loader returns are the first limit of the data rows, in
\* file order, that have a non-empty text and a label that normalizes to one of
\* the three labels, each with its normalized label; a row with an
\* unrecognized label ("left-leaning") or an empty text is in no result, and no
\* result has more than limit rows.
C17_RowAcceptance ==
  result.fn = "rows" =>
    \E ok \in {SelectSeq(call.rows, Acceptable)} :
      /\ Len(result.out) <= call.limit
      /\ result.out = [i \in 1..Min(call.limit, Len(ok)) |->
                         [text |-> ok[i][1], label |-> ExpectedLabel(ok[i][2])]]
      /\ \A i \in 1..Len(result.out) :
           result.out[i].text # "" /\ result.out[i].label \in Label

\* an unrecognized label is skipped, "Highly Biased" is accepted and fills the
\* limit of 1, the acceptable row behind it is not taken
C17_Witness ==
  /\ result.fn = "rows"
  /\ call.limit = 1
  /\ call.rows = <<<<"A cat", "left-leaning">>, <<" ", "Highly Biased">>,
                   <<"A cat", "Slightly Neutral">>>>
  /\ result.out = <<[text |-> " ", label |-> "highly-biased"]>>

(***************************************************************************)
(* The bullets of a summary                                                *)
(***************************************************************************)
\* the longest bullet the truncations of extractiveSummary allow: the marker,
\* the 200 characters of the forced truncation, the ellipsis
MaxBullet == Len("- ") + 200 + Len(Ellipsis)

\* C18: every line of an extractive summary begins with the marker "- " and is
\* no longer than a constant that does not depend on the text, whatever kind of
\* bullet it is (Topic, Key terms, Facts, Summary, Context, a sentence of the
\* standard path, the forced truncation).
C18_BulletsBounded ==
  result.fn = "summary" =>
    \A line \in Range(Lines(result.out)) :
      StartsWith(line, "- ") /\ Len(line) <= MaxBullet

\* the key terms of a text with a token of 200 characters: a bullet of 219
C18_Witness ==
  /\ result.fn = "summary"
  /\ call.text = NoBreak
  /\ call.maxPoints = 5
  /\ \E lines \in {Lines(result.out)} :
       /\ Len(lines) = 3
       /\ StartsWith(lines[2], "- Key terms: lead, abcdefghij")
       /\ Len(lines[2]) = 219
       /\ Len(lines[1]) <= 100
       /\ Len(lines[3]) <= 172

(***************************************************************************)
(* Liveness of the model cache                                             *)
(***************************************************************************)
\* the build behind buildingPromise has not settled: buildModel is fetching, or
\* it has returned and the .then callback is queued
InFlight(b) == builds[b].phase \in {"fetching", "returned"}

\* request r has got a model from getModel and answered with it
Resolved(r) == req[r].pc = "done" /\ req[r].status = 200 /\ req[r].model # 0

\* C19: when every fetch of the dataset settles, every call of getModel resolves
\* with a model (a call that started the build, joined it or found the cache)
\* and once a call was made the cache comes to hold a model; cachedModel and
\* buildingPromise are never both set, and buildingPromise names a build only
\* while that build is in flight.
C19_CacheLiveness ==
  /\ [](~(cachedModel # 0 /\ buildingPromise # 0))
  /\ [](buildingPromise # 0 => InFlight(buildingPromise))
  /\ \A r \in Req : (req[r].pc = "await") ~> Resolved(r)
  /\ (builds # <<>>) ~> (cachedModel # 0)

\* the first candidates fail, a request joins the build in flight, and both
\* requests are answered with the model the cache holds
C19_Witness ==
  /\ Len(builds) = 1
  /\ Len(builds[1].failed) > 0
  /\ cachedModel = 1
  /\ buildingPromise = 0
  /\ \A r \in Req : Resolved(r) /\ req[r].model = 1
  /\ \E r \in Req : req[r].seen.building = 1

====
